---------------------------- MODULE Spec2Model ----------------------------
(***************************************************************************)
(* A model of the retrieval-to-graph overlay engine of kgx-ui:             *)
(*   - overlay.ts: normalize, buildOverlay, edgeKey                        *)
(*   - App.tsx: the App component's state, effects and handlers            *)
(*   - ChatDock: the chat panel that owns the conversation history         *)
(*   - GraphCanvas.tsx: the camera effects and the level bands             *)
(*   - api.ts: getContextData, the stored context handed to buildOverlay   *)
(* Strings are sequences of one-character strings, so that stripping,      *)
(* trimming, upper-casing and key concatenation are computed, not assumed. *)
(***************************************************************************)
EXTENDS Integers, Sequences, FiniteSets, TLC

(***************************************************************************)
(* Bounds of the model.                                                    *)
(***************************************************************************)
\* longest input text given to normalize
MaxLen == 3
\* longest run of quote/whitespace characters wrapped around a text
MaxWrap == 2
\* most nodes in a node list given to buildOverlay
MaxNodes == 2
\* most node_datas entries in a retrieval result
MaxHits == 2
\* most use_reasoning_path entries in a retrieval result
MaxPaths == 1
\* most user gestures (graph switch, send, bubble click, Clear, Zoom) in one
\* run of the App
MaxGestures == 3
\* most frame callbacks of the canvas requested and not yet run
MaxPending == 2
\* most nodes in a graph given to the band effect
MaxBandNodes == 3

\* user gestures on the canvas, the drawer and the bars in a run of the
\* detail drawer
MaxDrawerOps == 3

(***************************************************************************)
(* Characters and strings.                                                 *)
(***************************************************************************)
Quote == "\""
Space == " "

\* the characters String.prototype.trim removes (those the model uses)
WhiteSpace == {" ", "\t", "\n"}

LowerLetters ==
  <<"a","b","c","d","e","f","g","h","i","j","k","l","m",
    "n","o","p","q","r","s","t","u","v","w","x","y","z">>

UpperLetters ==
  <<"A","B","C","D","E","F","G","H","I","J","K","L","M",
    "N","O","P","Q","R","S","T","U","V","W","X","Y","Z">>

\* String.prototype.toUpperCase on one character
upperChar(c) ==
  IF \E i \in 1..Len(LowerLetters) : LowerLetters[i] = c
  THEN UpperLetters[CHOOSE i \in 1..Len(LowerLetters) : LowerLetters[i] = c]
  ELSE c

toUpperCase(s) == [i \in 1..Len(s) |-> upperChar(s[i])]

\* number of leading characters of s that belong to C
leadRun(s, C) ==
  IF \A i \in 1..Len(s) : s[i] \in C
  THEN Len(s)
  ELSE (CHOOSE i \in 1..Len(s) :
          s[i] \notin C /\ \A j \in 1..(i-1) : s[j] \in C) - 1

\* number of trailing characters of s that belong to C
trailRun(s, C) ==
  IF \A i \in 1..Len(s) : s[i] \in C
  THEN Len(s)
  ELSE Len(s) - (CHOOSE i \in 1..Len(s) :
          s[i] \notin C /\ \A j \in (i+1)..Len(s) : s[j] \in C)

\* s.replace(/^"+|"+$/g, ''): the leading run of quotes is removed, then the
\* run of quotes that ends the string (if any character is left)
stripQuotes(s) ==
  LET a == SubSeq(s, leadRun(s, {Quote}) + 1, Len(s))
  IN  SubSeq(a, 1, Len(a) - trailRun(a, {Quote}))

\* String.prototype.trim
trim(s) ==
  LET a == SubSeq(s, leadRun(s, WhiteSpace) + 1, Len(s))
  IN  SubSeq(a, 1, Len(a) - trailRun(a, WhiteSpace))

\* overlay.ts normalize: strip wrapping quotes, then whitespace, then uppercase
normalize(s) == toUpperCase(trim(stripQuotes(s)))

(***************************************************************************)
(* State.  Three groups of variables: the inputs and results of normalize, *)
(* the inputs and results of one buildOverlay call, and the state of the   *)
(* App component with its ChatDock child.  Each specification below moves  *)
(* one group and holds the others at rest.                                 *)
(***************************************************************************)
VARIABLES nText, nVariant, nOnce, nTwice, nVariantOut, nPc

VARIABLES oNodes, oRes, oMap, oOut, oPc

\* App.tsx state (lines 13-26), the requests it has in flight, and the
\* ChatDock state (part_002 lines 28-33)
VARIABLES mounted, kgList, listPending, selectedKg, indexData, loading, error,
          chatLoading, chatHistory, activeOverlay, mergedOverlay, resetZoomTick,
          loadsInFlight, ctxInFlight,
          dockHistory, panelLoading, activeQid, histPending, sendsInFlight,
          sendCount, selCount, gestureCount, activeSrc, latestOk

\* GraphCanvas.tsx: the props of the canvas (overlay, resetZoomTick), its
\* zoomSigRef, the frame callbacks requested and not yet run, and the camera
VARIABLES cMounted, cOverlay, zoomSigRef, frameQueue, camera, cRaised,
          cLast, cApplied, cResetSince

\* the calls on the graph handle made by the last step, in order
VARIABLES cLog

\* GraphCanvas.tsx band effect: the node levels, the viewport height and the
\* forces installed
VARIABLES bLevels, bHeight, bForce, bPc

\* the viewport width, the values the installed yFor closed over, and the
\* last change of the props or of the viewport with what the effect did
VARIABLES bWidth, bClosure, bLast

\* a stored context.json, what getContextData makes of it and what
\* buildOverlay returns for it
VARIABLES xCtx, xNodes, xRes, xOut, xPc

\* GraphCanvas.tsx rendering: the graph given to the canvas, the retrieval
\* result behind its overlay, the overlay, a link of the graph, and what one
\* paint of the nodes and of the link draws
VARIABLES rLevels, rRes, rOverlay, rLink, rNodeStyle, rLinkPaint, rPainted

\* the Set objects of the overlays: their contents by reference, the
\* references held by activeOverlay and mergedOverlay, the history and index
\* the merge effect reads, and the references stored in either state so far
VARIABLES hHeap, hActive, hMerged, hHistory, hIndex, hLoading, hOps, hPublished

\* the detail drawer: the App's selectedNode and selectedLink (App.tsx lines
\* 28-29), the graph selected, whether the loading screen is shown, the
\* number of user gestures so far and the kind of the last one
VARIABLES selectedNode, selectedLink, dKg, dLoading, dOps, dLast

normVars == <<nText, nVariant, nOnce, nTwice, nVariantOut, nPc>>

ovVars == <<oNodes, oRes, oMap, oOut, oPc>>

appVars == <<mounted, kgList, listPending, selectedKg, indexData, loading, error,
             chatLoading, chatHistory, activeOverlay, mergedOverlay, resetZoomTick,
             loadsInFlight, ctxInFlight>>

dockVars == <<dockHistory, panelLoading, activeQid, histPending, sendsInFlight>>

\* counters that bound the run, and a record of which selection produced
\* the active overlay and which successful selection was made last
auxVars == <<sendCount, selCount, gestureCount, activeSrc, latestOk>>

canvasVars == <<cMounted, cOverlay, zoomSigRef, frameQueue, camera,
                cRaised, cLast, cApplied, cResetSince, cLog>>

bandVars == <<bLevels, bHeight, bForce, bPc, bWidth, bClosure, bLast>>

rawVars == <<xCtx, xNodes, xRes, xOut, xPc>>

renderVars == <<rLevels, rRes, rOverlay, rLink, rNodeStyle, rLinkPaint,
                rPainted>>

heapVars == <<hHeap, hActive, hMerged, hHistory, hIndex, hLoading, hOps,
              hPublished>>

drawerVars == <<selectedNode, selectedLink, dKg, dLoading, dOps, dLast>>

\* the groups of the painting, of the Set objects and of the detail drawer
moreVars == <<renderVars, heapVars, drawerVars>>

\* the groups of the canvas, the bands, the stored context and the painting
restVars == <<canvasVars, bandVars, rawVars, moreVars>>

vars == <<normVars, ovVars, appVars, dockVars, auxVars, restVars>>

\* the elements of a sequence (an array iterated with for..of)
Range(s) == {s[i] : i \in 1..Len(s)}

StringsUpTo(S, n) == UNION {[1..k -> S] : k \in 0..n}

(***************************************************************************)
(* overlay.ts: the identity index and buildOverlay.                        *)
(***************************************************************************)
\* an empty Map / Set / array
EmptyMap == <<>>

\* nameMap.get(k) || []
nameMapGet(m, k) == IF k \in DOMAIN m THEN m[k] ELSE <<>>

\* a variant of nameMapPut that keeps only the last id registered under a key
nameMapPutOverwrite(m, k, id) == (k :> <<id>>) @@ m

\* arr = nameMap.get(k) || []; arr.push(id); nameMap.set(k, arr)
nameMapPut(m, k, id) == (k :> Append(nameMapGet(m, k), id)) @@ m

\* for (const key of [n.id, n.label, n.description]) { if (!key) continue; ... }
RECURSIVE nameMapAddKeys(_, _, _)
nameMapAddKeys(m, keys, id) ==
  IF keys = <<>> THEN m
  ELSE LET key == Head(keys)
       IN  nameMapAddKeys(IF key = <<>> THEN m
                          ELSE nameMapPut(m, normalize(key), id),
                          Tail(keys), id)

\* for (const n of nodes) { ... }
RECURSIVE nameMapLoop(_, _)
nameMapLoop(m, nodes) ==
  IF nodes = <<>> THEN m
  ELSE LET n == Head(nodes)
       IN  nameMapLoop(nameMapAddKeys(m, <<n.id, n.label, n.description>>, n.id),
                       Tail(nodes))

\* the nameMap built at the start of buildOverlay
buildNameMap(nodes) == nameMapLoop(EmptyMap, nodes)

\* a variant of hitStep that inserts an unmatched name as a placeholder id
hitStepPlaceholder(hits, nd, m) ==
  LET k == normalize(nd.entity_name)
  IN  IF nameMapGet(m, k) = <<>> THEN hits \cup {k}
      ELSE hits \cup Range(nameMapGet(m, k))

\* const k = normalize(nd.entity_name);
\* for (const id of nameMap.get(k) || []) hitNodeIds.add(id)
hitStep(hits, nd, m) ==
  LET k == normalize(nd.entity_name)
  IN  hits \cup Range(nameMapGet(m, k))

\* for (const nd of res.node_hits.node_datas) { ... }
RECURSIVE hitLoop(_, _, _)
hitLoop(hits, nds, m) ==
  IF nds = <<>> THEN hits
  ELSE hitLoop(hitStep(hits, Head(nds), m), Tail(nds), m)

\* `${a}||${b}`
joinKey(a, b) == a \o <<"|", "|">> \o b

\* a variant of pathStep that records an entry only when both ends resolve
pathStepResolvedOnly(acc, p, m) ==
  LET sNorm == normalize(p.src_tgt[1])
      tNorm == normalize(p.src_tgt[2])
  IN  IF nameMapGet(m, sNorm) = <<>> \/ nameMapGet(m, tNorm) = <<>> THEN acc
      ELSE [pathNodeIds  |-> acc.pathNodeIds
                               \cup Range(nameMapGet(m, sNorm))
                               \cup Range(nameMapGet(m, tNorm)),
            pathEdgeKeys |-> acc.pathEdgeKeys
                               \cup {joinKey(sNorm, tNorm), joinKey(tNorm, sNorm)}]

\* a variant of pathStep that inserts the key in one direction only
pathStepOneWay(acc, p, m) ==
  LET sNorm == normalize(p.src_tgt[1])
      tNorm == normalize(p.src_tgt[2])
  IN  [pathNodeIds  |-> acc.pathNodeIds
                          \cup Range(nameMapGet(m, sNorm))
                          \cup Range(nameMapGet(m, tNorm)),
       pathEdgeKeys |-> acc.pathEdgeKeys \cup {joinKey(sNorm, tNorm)}]

\* the body of the loop over the reasoning path (overlay.ts lines 37-41)
pathStep(acc, p, m) ==
  LET sNorm == normalize(p.src_tgt[1])
      tNorm == normalize(p.src_tgt[2])
  IN  [pathNodeIds  |-> acc.pathNodeIds
                          \cup Range(nameMapGet(m, sNorm))
                          \cup Range(nameMapGet(m, tNorm)),
       pathEdgeKeys |-> acc.pathEdgeKeys
                          \cup {joinKey(sNorm, tNorm), joinKey(tNorm, sNorm)}]

\* for (const p of reasoning) { ... }
RECURSIVE pathLoop(_, _, _)
pathLoop(acc, ps, m) ==
  IF ps = <<>> THEN acc
  ELSE pathLoop(pathStep(acc, Head(ps), m), Tail(ps), m)

\* a variant of buildOverlay that reads an empty node_datas as "every node"
buildOverlayWildcard(res, nodes) ==
  LET m    == buildNameMap(nodes)
      hits == IF res.node_hits.node_datas = <<>>
              THEN {nodes[i].id : i \in 1..Len(nodes)}
              ELSE hitLoop({}, res.node_hits.node_datas, m)
      path == pathLoop([pathNodeIds |-> {}, pathEdgeKeys |-> {}],
                       res.node_hits.use_reasoning_path, m)
  IN  [hitNodeIds   |-> hits,
       pathNodeIds  |-> path.pathNodeIds,
       pathEdgeKeys |-> path.pathEdgeKeys]

\* buildOverlay(res, nodes)
buildOverlay(res, nodes) ==
  LET m    == buildNameMap(nodes)
      hits == hitLoop({}, res.node_hits.node_datas, m)
      path == pathLoop([pathNodeIds |-> {}, pathEdgeKeys |-> {}],
                       res.node_hits.use_reasoning_path, m)
  IN  [hitNodeIds   |-> hits,
       pathNodeIds  |-> path.pathNodeIds,
       pathEdgeKeys |-> path.pathEdgeKeys]

(***************************************************************************)
(* Specification of normalize as a pure function: a text and a wrapped,    *)
(* case-changed variant of it are drawn, normalize is applied to both, and *)
(* then once more to the first result.                                     *)
(***************************************************************************)
Alphabet == {Quote, Space, "a", "A"}
WrapChars == {Quote, Space}

\* t2 is t with the case of some letters changed
SameUpToCase(t, t2) ==
  /\ Len(t2) = Len(t)
  /\ \A i \in 1..Len(t) : upperChar(t2[i]) = upperChar(t[i])

\* non-empty texts with nothing to strip: no quote or whitespace at either end
IsBare(t) ==
  /\ t # <<>>
  /\ t[1] \notin WrapChars
  /\ t[Len(t)] \notin WrapChars

OverlayIdle ==
  /\ oNodes = <<>>
  /\ oRes = [node_hits |-> [node_datas |-> <<>>, use_reasoning_path |-> <<>>]]
  /\ oMap = EmptyMap
  /\ oOut = "none"
  /\ oPc = "idle"

NormIdle ==
  /\ nText = <<>>
  /\ nVariant = <<>>
  /\ nOnce = <<>>
  /\ nTwice = <<>>
  /\ nVariantOut = <<>>
  /\ nPc = "idle"

NormInit ==
  /\ nText \in StringsUpTo(Alphabet, MaxLen)
  /\ \E pre \in StringsUpTo(WrapChars, MaxWrap),
        post \in StringsUpTo(WrapChars, MaxWrap),
        t2 \in StringsUpTo(Alphabet, MaxLen) :
        /\ SameUpToCase(nText, t2)
        /\ nVariant = pre \o t2 \o post
  /\ nOnce = <<>>
  /\ nTwice = <<>>
  /\ nVariantOut = <<>>
  /\ nPc = "input"

\* normalize(x) and normalize(variant of x)
NormalizeInput ==
  /\ nPc = "input"
  /\ nOnce' = normalize(nText)
  /\ nVariantOut' = normalize(nVariant)
  /\ nPc' = "once"
  /\ UNCHANGED <<nText, nVariant, nTwice>>
  /\ UNCHANGED <<ovVars, restVars, appVars, dockVars, auxVars>>

\* normalize(normalize(x))
NormalizeAgain ==
  /\ nPc = "once"
  /\ nTwice' = normalize(nOnce)
  /\ nPc' = "twice"
  /\ UNCHANGED <<nText, nVariant, nOnce, nVariantOut>>
  /\ UNCHANGED <<ovVars, restVars, appVars, dockVars, auxVars>>

NormNext == NormalizeInput \/ NormalizeAgain

\* C1: normalize is idempotent: normalize(normalize(x)) = normalize(x) for
\* every input text x.
C1_Idempotent == nPc = "twice" => nTwice = nOnce

\* C2: wrapping a bare text in quotes and/or whitespace (in any order) and
\* changing letter case does not change its canonical text.
C2_QuoteCaseInsensitive ==
  (nPc # "input" /\ nPc # "idle" /\ IsBare(nText)) => nVariantOut = nOnce

(***************************************************************************)
(* Specification of buildOverlay as a pure function: a node list and a     *)
(* retrieval result are drawn and buildOverlay is applied to them.         *)
(***************************************************************************)
Empty == <<>>
QuotesOnly == <<Quote, Quote>>
Egg == <<"E", "g", "g">>
EggLowerSp == <<"e", "g", "g", " ">>
EGG == <<"E", "G", "G">>
Boil == <<"B", "o", "i", "l">>
BoilLower == <<"b", "o", "i", "l">>
BoilQuoted == <<Quote, "b", "o", "i", "l", Quote>>
Zz == <<"Z", "z">>
Yy == <<"Y", "y">>

Digits == <<"1", "2", "3", "4", "5", "6", "7", "8", "9">>

\* the id of the i-th node of a list: n1, n2, ... (ids are unique)
NodeIdAt(i) == <<"n", Digits[i]>>

\* label and description of a node: plain labels without description, a label
\* made of quotes only with a whitespace description, a label in another case
\* with trailing whitespace and a description that matches another label
NodeShapes ==
  { [label |-> Egg,        description |-> Empty],
    [label |-> Boil,       description |-> Empty],
    [label |-> QuotesOnly, description |-> <<Space>>],
    [label |-> EggLowerSp, description |-> BoilLower] }

NodeLists ==
  UNION { { [i \in 1..k |-> [id          |-> NodeIdAt(i),
                             label       |-> f[i].label,
                             description |-> f[i].description]] :
            f \in [1..k -> NodeShapes] } : k \in 0..MaxNodes }

\* entity names: empty, matching a label, quoted and matching a description
\* or label, matching the id of a second node
EntityNames == {Empty, EGG, BoilQuoted, NodeIdAt(2)}

\* reasoning-path pairs: both ends resolvable, one end, an empty end
PathPairs == { <<Egg, Boil>>, <<Zz, Egg>>, <<Empty, Yy>> }

RetrievalResults ==
  { [node_hits |->
       [node_datas         |-> [i \in 1..Len(ns) |-> [entity_name |-> ns[i]]],
        use_reasoning_path |-> [i \in 1..Len(ps) |-> [src_tgt |-> ps[i]]]]] :
    ns \in StringsUpTo(EntityNames, MaxHits),
    ps \in StringsUpTo(PathPairs, MaxPaths) }

OverlayInit ==
  /\ oNodes \in NodeLists
  /\ oRes \in RetrievalResults
  /\ oMap = EmptyMap
  /\ oOut = "none"
  /\ oPc = "input"

\* one call buildOverlay(oRes, oNodes); oMap is the nameMap it builds
BuildOverlay ==
  /\ oPc = "input"
  /\ oMap' = buildNameMap(oNodes)
  /\ oOut' = buildOverlay(oRes, oNodes)
  /\ oPc' = "built"
  /\ UNCHANGED <<oNodes, oRes>>
  /\ UNCHANGED <<normVars, appVars, dockVars, auxVars, restVars>>

OverlayNext == BuildOverlay

\* the non-empty matchable attributes of a node
NodeKeys(n) == {k \in {n.id, n.label, n.description} : k # Empty}

\* the ids of the nodes that a free-text name refers to: those with a
\* non-empty id, label or description of the same canonical text
Referred(name, nodes) ==
  {n.id : n \in {x \in Range(nodes) :
                   \E k \in NodeKeys(x) : normalize(k) = normalize(name)}}

\* C3: the empty canonical text is never a key of the identity index, so a
\* name that normalizes to the empty text resolves to no node.
C3_NoEmptyKey ==
  oPc = "built" =>
    /\ Empty \notin DOMAIN oMap
    /\ \A i \in 1..Len(oRes.node_hits.node_datas) :
         normalize(oRes.node_hits.node_datas[i].entity_name) = Empty
           => nameMapGet(oMap, Empty) = <<>>

\* C4: hitNodeIds is exactly the set of ids of the nodes that some node_datas
\* entry's entity_name refers to (by id, label or description).
C4_HitNodeIds ==
  oPc = "built" =>
    oOut.hitNodeIds =
      UNION { Referred(oRes.node_hits.node_datas[i].entity_name, oNodes) :
              i \in 1..Len(oRes.node_hits.node_datas) }

\* C4 witness: a name shared by two nodes put both ids in hitNodeIds while
\* another name matched nothing.
C4_Witness ==
  /\ oPc = "built"
  /\ \E i, j \in 1..Len(oNodes) :
       /\ i # j
       /\ oNodes[i].label = oNodes[j].label
       /\ {oNodes[i].id, oNodes[j].id} \subseteq oOut.hitNodeIds
       /\ oOut.hitNodeIds = {oNodes[i].id, oNodes[j].id}
  /\ \E i \in 1..Len(oRes.node_hits.node_datas) :
       Referred(oRes.node_hits.node_datas[i].entity_name, oNodes) = {}

ScenarioNodes ==
  << [id |-> NodeIdAt(1), label |-> Egg,  description |-> Empty],
     [id |-> NodeIdAt(2), label |-> Boil, description |-> Empty] >>

ScenarioResult ==
  [node_hits |-> [node_datas         |-> << [entity_name |-> EGG] >>,
                  use_reasoning_path |-> << [src_tgt |-> <<Egg, Boil>>] >>]]

\* C5: pathNodeIds is exactly the union, over the reasoning-path entries, of
\* the ids either endpoint refers to; and the Egg/Boil scenario gives
\* hitNodeIds={n1}, pathNodeIds={n1,n2}, pathEdgeKeys={EGG||BOIL, BOIL||EGG}.
C5_PathNodeIds ==
  oPc = "built" =>
    /\ oOut.pathNodeIds =
         UNION { Referred(oRes.node_hits.use_reasoning_path[i].src_tgt[1], oNodes)
                   \cup
                 Referred(oRes.node_hits.use_reasoning_path[i].src_tgt[2], oNodes) :
                 i \in 1..Len(oRes.node_hits.use_reasoning_path) }
    /\ (oNodes = ScenarioNodes /\ oRes = ScenarioResult) =>
         /\ oOut.hitNodeIds = {<<"n", "1">>}
         /\ oOut.pathNodeIds = {<<"n", "1">>, <<"n", "2">>}
         /\ oOut.pathEdgeKeys =
              { <<"E", "G", "G", "|", "|", "B", "O", "I", "L">>,
                <<"B", "O", "I", "L", "|", "|", "E", "G", "G">> }

\* C5 witness: an entry with exactly one resolvable endpoint contributed
\* that endpoint's ids.
C5_Witness ==
  /\ oPc = "built"
  /\ oOut.pathNodeIds # {}
  /\ \E i \in 1..Len(oRes.node_hits.use_reasoning_path) :
       /\ Referred(oRes.node_hits.use_reasoning_path[i].src_tgt[1], oNodes) = {}
       /\ Referred(oRes.node_hits.use_reasoning_path[i].src_tgt[2], oNodes) # {}

\* C7: every element of hitNodeIds and pathNodeIds is the id of a node of the
\* node list passed to the call.
C7_IdsFromNodeList ==
  oPc = "built" =>
    (oOut.hitNodeIds \cup oOut.pathNodeIds) \subseteq {n.id : n \in Range(oNodes)}

\* C7 witness: a call with an unmatched entity name and an unmatched path
\* endpoint that still produced hit and path nodes.
C7_Witness ==
  /\ oPc = "built"
  /\ oOut.hitNodeIds # {}
  /\ oOut.pathNodeIds # {}
  /\ \E i \in 1..Len(oRes.node_hits.node_datas) :
       Referred(oRes.node_hits.node_datas[i].entity_name, oNodes) = {}
  /\ \E i \in 1..Len(oRes.node_hits.use_reasoning_path) :
       Referred(oRes.node_hits.use_reasoning_path[i].src_tgt[1], oNodes) = {}

(***************************************************************************)
(* The App component (App.tsx) with its ChatDock child (part_002).         *)
(* One action is one event: a user gesture or the completion of a request. *)
(* It includes the re-renders and the effect runs the event causes, up to  *)
(* the point where React is idle again.                                    *)
(***************************************************************************)
NoKg == "none"
NoIndex == "none"
NoQid == ""
Null == [isNull |-> TRUE]
NoRetrieval == [absent |-> TRUE]
NoSrc == [seq |-> 0, kg |-> NoKg, qid |-> NoQid, graph |-> NoIndex]
EmptyOverlay == [hitNodeIds |-> {}, pathNodeIds |-> {}, pathEdgeKeys |-> {}]

\* listKgs(): the knowledge graphs the backend offers, in order
Kgs == <<"A", "B">>

\* getIndex(kg).nodes: graph A is the Egg/Boil graph, graph B has other ids
GraphNodes(kg) ==
  IF kg = "A" THEN ScenarioNodes
  ELSE << [id |-> <<"m", "1">>, label |-> Egg, description |-> Empty] >>

\* the qid of the n-th message sent in this run
SendQids == <<"s1", "s2", "s3", "s4", "s5">>

\* the retrieval payload the backend computes for the n-th sent query
SendRetrieval(kg, n) ==
  [node_hits |-> [node_datas         |-> << [entity_name |-> NodeIdAt(2)],
                                            [entity_name |-> Zz] >>,
                  use_reasoning_path |-> << [src_tgt |-> <<Boil, Yy>>] >>]]

\* getContextData(kg, qid): the stored context of a query
ServerCtx(kg, qid) ==
  CASE qid = "q1" -> ScenarioResult
    [] qid = "q2" ->
         [node_hits |-> [node_datas         |-> << [entity_name |-> BoilQuoted] >>,
                         use_reasoning_path |-> << [src_tgt |-> <<Zz, Egg>>] >>]]
    [] qid = "q3" ->
         [node_hits |-> [node_datas         |-> << [entity_name |-> EGG] >>,
                         use_reasoning_path |-> << [src_tgt |-> <<Zz, Yy>>] >>]]
    [] qid = "q4" ->
         [node_hits |-> [node_datas |-> <<>>, use_reasoning_path |-> <<>>]]
    [] OTHER -> SendRetrieval(kg, CHOOSE n \in 1..Len(SendQids) : SendQids[n] = qid)

\* a chat message: id, qid and retrieval are the fields the App reads
Msg(qid, role, retrieval) ==
  [id |-> [qid |-> qid, role |-> role], qid |-> qid, retrieval |-> retrieval]

\* getChatHistory(kg): stored messages carry a qid and no retrieval payload;
\* a record stored without qid gives a message with an empty qid; the context
\* stored for q4 has no hits and no reasoning path
ServerHistory(kg) ==
  IF kg = "A"
  THEN << Msg("q1", "user", NoRetrieval), Msg("q2", "user", NoRetrieval) >>
  ELSE << Msg("q3", "user", NoRetrieval), Msg(NoQid, "user", NoRetrieval),
          Msg("q4", "user", NoRetrieval) >>

\* sendChatMessage(kg, text, useAnswer, topK): the user message and, with
\* useAnswer, the assistant message, both carrying the retrieval payload
SentMessages(kg, n, useAnswer) ==
  LET u == Msg(SendQids[n], "temp_user", SendRetrieval(kg, n))
      a == Msg(SendQids[n], "temp_assistant", SendRetrieval(kg, n))
  IN  IF useAnswer THEN <<u, a>> ELSE <<u>>

\* the body of the merge effect's loop (App.tsx lines 82-88)
RECURSIVE mergeLoop(_, _, _)
mergeLoop(acc, hist, nodes) ==
  IF hist = <<>> THEN acc
  ELSE LET msg == Head(hist)
       IN  IF msg.retrieval = NoRetrieval
           THEN mergeLoop(acc, Tail(hist), nodes)
           ELSE LET ov == buildOverlay(msg.retrieval, nodes)
                IN  mergeLoop([hitNodeIds   |-> acc.hitNodeIds \cup ov.hitNodeIds,
                               pathNodeIds  |-> acc.pathNodeIds \cup ov.pathNodeIds,
                               pathEdgeKeys |-> acc.pathEdgeKeys \cup ov.pathEdgeKeys],
                              Tail(hist), nodes)

\* a variant of mergeEffect that adds to the previous merged overlay
mergeEffectIncremental(hist, idx, prev) ==
  IF idx = NoIndex THEN prev
  ELSE mergeLoop(IF prev = Null THEN EmptyOverlay ELSE prev, hist, GraphNodes(idx))

\* the merge effect (App.tsx lines 76-90), run after chatHistory or indexData
\* changed; prev is mergedOverlay before the run
mergeEffect(hist, idx, prev) ==
  IF idx = NoIndex THEN prev
  ELSE mergeLoop(EmptyOverlay, hist, GraphNodes(idx))

\* prev.map((m) => (m.id === msg.id ? { ...m, retrieval: ctx } : m))
enrich(hist, msgId, ctx) ==
  [i \in 1..Len(hist) |->
     IF hist[i].id = msgId THEN [hist[i] EXCEPT !.retrieval = ctx] ELSE hist[i]]

\* a variant of ShellShown without the early return that shows the loading
\* screen (App.tsx lines 141-148): the graph selector stays on screen while
\* an index load is in flight
ShellShownWhileLoading ==
  /\ mounted
  /\ ~(selectedKg = NoKg /\ kgList = <<>>)
  /\ ~error
  /\ indexData # NoIndex
  /\ selectedKg # NoKg

\* App renders the shell (TopBar, ChatDock, GraphCanvas) only past the three
\* early returns of App.tsx lines 132-158
ShellShown ==
  /\ mounted
  /\ ~(selectedKg = NoKg /\ kgList = <<>>)
  /\ ~loading
  /\ ~error
  /\ indexData # NoIndex
  /\ selectedKg # NoKg

\* a variant of DisplayedOverlay that passes over an active overlay whose
\* sets are all empty
DisplayedOverlaySkipEmpty ==
  IF activeOverlay # Null /\ activeOverlay # EmptyOverlay THEN activeOverlay
  ELSE mergedOverlay

\* overlay={activeOverlay || mergedOverlay}
DisplayedOverlay == IF activeOverlay # Null THEN activeOverlay ELSE mergedOverlay

AppIdle ==
  /\ mounted = FALSE
  /\ kgList = <<>>
  /\ listPending = FALSE
  /\ selectedKg = NoKg
  /\ indexData = NoIndex
  /\ loading = TRUE
  /\ error = FALSE
  /\ chatLoading = FALSE
  /\ chatHistory = <<>>
  /\ activeOverlay = Null
  /\ mergedOverlay = Null
  /\ resetZoomTick = 0
  /\ loadsInFlight = {}
  /\ ctxInFlight = {}
  /\ dockHistory = <<>>
  /\ panelLoading = FALSE
  /\ activeQid = NoQid
  /\ histPending = FALSE
  /\ sendsInFlight = {}
  /\ sendCount = 0
  /\ selCount = 0
  /\ gestureCount = 0
  /\ activeSrc = NoSrc
  /\ latestOk = NoSrc

\* the useState initial values of App
AppInit == AppIdle

\* first render and mount effects: listKgs is requested (lines 31-44); the
\* selectedKg effect takes its !selectedKg branch (lines 47-51); the merge
\* effect returns at once (line 77)
AppMount ==
  /\ ~mounted
  /\ mounted' = TRUE
  /\ listPending' = TRUE
  /\ indexData' = NoIndex
  /\ chatHistory' = <<>>
  /\ loading' = FALSE
  /\ UNCHANGED <<kgList, selectedKg, error, chatLoading, activeOverlay,
                 mergedOverlay, resetZoomTick, loadsInFlight, ctxInFlight>>
  /\ UNCHANGED <<normVars, ovVars, restVars, dockVars, auxVars>>

\* the selectedKg effect for a non-null kg (lines 54-73) followed by the
\* re-render it causes: the merge effect runs again because chatHistory is a
\* new array, and the shell (with the ChatDock) is unmounted while loading
SelectedKgEffect(kg) ==
  /\ loading' = TRUE
  /\ error' = FALSE
  /\ activeOverlay' = Null
  /\ chatHistory' = <<>>
  /\ mergedOverlay' = mergeEffect(<<>>, indexData, Null)
  /\ loadsInFlight' = loadsInFlight \cup {kg}
  /\ dockHistory' = <<>>
  /\ panelLoading' = FALSE
  /\ activeQid' = NoQid
  /\ histPending' = FALSE
  /\ sendsInFlight' = {[s EXCEPT !.live = FALSE] : s \in sendsInFlight}

\* listKgs() resolved: setKgList, setSelectedKg(prev ?? items[0].kg_id)
ListKgsDone ==
  /\ listPending
  /\ listPending' = FALSE
  /\ kgList' = Kgs
  /\ selectedKg' = IF selectedKg = NoKg THEN Kgs[1] ELSE selectedKg
  /\ SelectedKgEffect(Kgs[1])
  /\ UNCHANGED <<mounted, indexData, chatLoading, resetZoomTick, ctxInFlight>>
  /\ UNCHANGED <<normVars, ovVars, restVars, auxVars>>

\* listKgs() rejected: setError
ListKgsFail ==
  /\ listPending
  /\ listPending' = FALSE
  /\ error' = TRUE
  /\ UNCHANGED <<mounted, kgList, selectedKg, indexData, loading, chatLoading,
                 chatHistory, activeOverlay, mergedOverlay, resetZoomTick,
                 loadsInFlight, ctxInFlight>>
  /\ UNCHANGED <<normVars, ovVars, restVars, dockVars, auxVars>>

\* TopBar onKgChange: setSelectedKg(kg), then the selectedKg effect
SwitchKg(kg) ==
  /\ ShellShown
  /\ kg # selectedKg
  /\ gestureCount < MaxGestures
  /\ gestureCount' = gestureCount + 1
  /\ selectedKg' = kg
  /\ SelectedKgEffect(kg)
  /\ UNCHANGED <<mounted, kgList, listPending, indexData, chatLoading,
                 resetZoomTick, ctxInFlight>>
  /\ UNCHANGED <<normVars, ovVars, sendCount, selCount, activeSrc, latestOk>>
  /\ UNCHANGED restVars

\* the ChatDock's first render and mount effects (part_002 lines 42-63):
\* its history is empty and reported to the App, getChatHistory is requested
DockMount ==
  /\ dockHistory' = <<>>
  /\ panelLoading' = TRUE
  /\ activeQid' = NoQid
  /\ histPending' = TRUE

\* the ChatDock is unmounted: its state is dropped and the requests it has
\* in flight can no longer update it
DockUnmount ==
  /\ dockHistory' = <<>>
  /\ panelLoading' = FALSE
  /\ activeQid' = NoQid
  /\ histPending' = FALSE

\* getIndex(kg) resolved (lines 64-65, 70): setIndexData, setLoading(false);
\* when this brings up the shell the ChatDock mounts and reports its empty
\* history; the merge effect runs for the new indexData
LoadIndexDone(kg) ==
  /\ kg \in loadsInFlight
  /\ loadsInFlight' = loadsInFlight \ {kg}
  /\ indexData' = kg
  /\ loading' = FALSE
  /\ IF ~ShellShown /\ ~error
     THEN /\ DockMount
          /\ chatHistory' = <<>>
     ELSE /\ UNCHANGED <<dockHistory, panelLoading, activeQid, histPending>>
          /\ UNCHANGED chatHistory
  /\ mergedOverlay' = mergeEffect(chatHistory', kg, mergedOverlay)
  /\ UNCHANGED <<mounted, kgList, listPending, selectedKg, error, chatLoading,
                 activeOverlay, resetZoomTick, ctxInFlight, sendsInFlight>>
  /\ UNCHANGED <<normVars, ovVars, restVars, auxVars>>

\* getIndex(kg) rejected (lines 66-70): setError, setIndexData(null),
\* setLoading(false); the error screen replaces the shell
LoadIndexFail(kg) ==
  /\ kg \in loadsInFlight
  /\ loadsInFlight' = loadsInFlight \ {kg}
  /\ error' = TRUE
  /\ indexData' = NoIndex
  /\ loading' = FALSE
  /\ IF ShellShown
     THEN /\ DockUnmount
          /\ sendsInFlight' = {[s EXCEPT !.live = FALSE] : s \in sendsInFlight}
     ELSE UNCHANGED dockVars
  /\ UNCHANGED <<mounted, kgList, listPending, selectedKg, chatLoading,
                 chatHistory, activeOverlay, mergedOverlay, resetZoomTick,
                 ctxInFlight>>
  /\ UNCHANGED <<normVars, ovVars, restVars, auxVars>>

\* getChatHistory(kg) resolved (part_002 lines 51-52, 56): the dock's history
\* is replaced, reported to the App (lines 61-63), and merged
HistoryDone ==
  /\ histPending
  /\ histPending' = FALSE
  /\ panelLoading' = FALSE
  /\ dockHistory' = ServerHistory(selectedKg)
  /\ chatHistory' = dockHistory'
  /\ mergedOverlay' = mergeEffect(chatHistory', indexData, mergedOverlay)
  /\ UNCHANGED <<activeQid, sendsInFlight>>
  /\ UNCHANGED <<mounted, kgList, listPending, selectedKg, indexData, loading,
                 error, chatLoading, activeOverlay, resetZoomTick,
                 loadsInFlight, ctxInFlight>>
  /\ UNCHANGED <<normVars, ovVars, restVars, auxVars>>

\* getChatHistory(kg) rejected (part_002 lines 53-56)
HistoryFail ==
  /\ histPending
  /\ histPending' = FALSE
  /\ panelLoading' = FALSE
  /\ UNCHANGED <<dockHistory, activeQid, sendsInFlight>>
  /\ UNCHANGED <<appVars, normVars, ovVars, restVars, auxVars>>

\* handleMessageSelect up to its await (App.tsx lines 94-99), for a message
\* with a qid, under the indexData and selectedKg the callback closed over
BeginSelect(msg, graph, kg) ==
  /\ chatLoading' = TRUE
  /\ selCount' = selCount + 1
  /\ ctxInFlight' = ctxInFlight \cup
       {[seq |-> selCount + 1, msg |-> msg.id, qid |-> msg.qid,
         graph |-> graph, kg |-> kg]}

\* ChatDock send up to its await (part_002 lines 69-76)
SendStart(useAnswer) ==
  /\ ShellShown
  /\ ~panelLoading
  /\ ~chatLoading
  /\ gestureCount < MaxGestures
  /\ gestureCount' = gestureCount + 1
  /\ sendCount' = sendCount + 1
  /\ panelLoading' = TRUE
  /\ sendsInFlight' = sendsInFlight \cup
       {[n |-> sendCount + 1, kg |-> selectedKg, useAnswer |-> useAnswer,
         graph |-> indexData, live |-> TRUE]}
  /\ UNCHANGED <<dockHistory, activeQid, histPending>>
  /\ UNCHANGED <<appVars, normVars, ovVars, selCount, activeSrc, latestOk>>
  /\ UNCHANGED restVars

\* sendChatMessage resolved (part_002 lines 77-85, 89): the messages are
\* appended to the dock's history (if the dock is still mounted), reported
\* to the App and merged; the target message is selected through the
\* onMessageSelect the send closed over
SendDone(s) ==
  /\ s \in sendsInFlight
  /\ sendsInFlight' = sendsInFlight \ {s}
  /\ LET msgs   == SentMessages(s.kg, s.n, s.useAnswer)
         target == msgs[Len(msgs)]
     IN  /\ IF s.live
            THEN /\ dockHistory' = dockHistory \o msgs
                 /\ chatHistory' = dockHistory'
                 /\ activeQid' = target.qid
                 /\ panelLoading' = FALSE
            ELSE UNCHANGED <<dockHistory, chatHistory, activeQid, panelLoading>>
         /\ BeginSelect(target, s.graph, s.kg)
  /\ mergedOverlay' = IF s.live
                      THEN mergeEffect(chatHistory', indexData, mergedOverlay)
                      ELSE mergedOverlay
  /\ UNCHANGED <<mounted, kgList, listPending, selectedKg, indexData, loading,
                 error, activeOverlay, resetZoomTick, loadsInFlight>>
  /\ UNCHANGED <<histPending, sendCount, gestureCount, activeSrc, latestOk>>
  /\ UNCHANGED <<normVars, ovVars, restVars>>

\* sendChatMessage rejected (part_002 lines 86-89)
SendFail(s) ==
  /\ s \in sendsInFlight
  /\ sendsInFlight' = sendsInFlight \ {s}
  /\ panelLoading' = IF s.live THEN FALSE ELSE panelLoading
  /\ UNCHANGED <<dockHistory, activeQid, histPending>>
  /\ UNCHANGED <<appVars, normVars, ovVars, restVars, auxVars>>

\* a click on the i-th bubble (part_002 lines 150-154) and handleMessageSelect
\* up to its await; a bubble without qid does nothing
SelectMessage(i) ==
  /\ ShellShown
  /\ i \in 1..Len(dockHistory)
  /\ dockHistory[i].qid # NoQid
  /\ gestureCount < MaxGestures
  /\ gestureCount' = gestureCount + 1
  /\ activeQid' = dockHistory[i].qid
  /\ BeginSelect(dockHistory[i], indexData, selectedKg)
  /\ UNCHANGED <<mounted, kgList, listPending, selectedKg, indexData, loading,
                 error, chatHistory, activeOverlay, mergedOverlay,
                 resetZoomTick, loadsInFlight>>
  /\ UNCHANGED <<dockHistory, panelLoading, histPending, sendsInFlight>>
  /\ UNCHANGED <<sendCount, activeSrc, latestOk>>
  /\ UNCHANGED <<normVars, ovVars, restVars>>

\* a click on the i-th bubble when its message has no qid: the handler
\* returns at once (part_002 line 151; handleMessageSelect would return at
\* App.tsx line 94)
SelectWithoutQid(i) ==
  /\ ShellShown
  /\ i \in 1..Len(dockHistory)
  /\ dockHistory[i].qid = NoQid
  /\ gestureCount < MaxGestures
  /\ gestureCount' = gestureCount + 1
  /\ UNCHANGED <<appVars, dockVars>>
  /\ UNCHANGED <<sendCount, selCount, activeSrc, latestOk>>
  /\ UNCHANGED <<normVars, ovVars>>
  /\ UNCHANGED restVars

\* getContextData returned a context (App.tsx lines 100-109): the active
\* overlay is built against the nodes the callback closed over, the message
\* is enriched in the App's history, the reset tick is incremented, and the
\* merge effect runs for the new history
CtxDone(f) ==
  /\ f \in ctxInFlight
  /\ ctxInFlight' = ctxInFlight \ {f}
  /\ LET ctx == ServerCtx(f.kg, f.qid)
     IN  /\ activeOverlay' = buildOverlay(ctx, GraphNodes(f.graph))
         /\ chatHistory' = enrich(chatHistory, f.msg, ctx)
  /\ resetZoomTick' = resetZoomTick + 1
  /\ chatLoading' = FALSE
  /\ mergedOverlay' = mergeEffect(chatHistory', indexData, mergedOverlay)
  /\ activeSrc' = [seq |-> f.seq, kg |-> f.kg, qid |-> f.qid, graph |-> f.graph]
  /\ latestOk' = IF f.seq > latestOk.seq THEN activeSrc' ELSE latestOk
  /\ UNCHANGED <<mounted, kgList, listPending, selectedKg, indexData, loading,
                 error, loadsInFlight>>
  /\ UNCHANGED <<sendCount, selCount, gestureCount>>
  /\ UNCHANGED <<normVars, ovVars, restVars, dockVars>>

\* a variant of CtxFail that drops the active overlay when the fetch fails
CtxFailClearsOverlay(f) ==
  /\ f \in ctxInFlight
  /\ ctxInFlight' = ctxInFlight \ {f}
  /\ chatLoading' = FALSE
  /\ activeOverlay' = Null
  /\ UNCHANGED <<mounted, kgList, listPending, selectedKg, indexData, loading,
                 error, chatHistory, mergedOverlay, resetZoomTick,
                 loadsInFlight>>
  /\ UNCHANGED <<normVars, ovVars, restVars, dockVars, auxVars>>

\* getContextData returned null or threw (App.tsx lines 100, 108-109)
CtxFail(f) ==
  /\ f \in ctxInFlight
  /\ ctxInFlight' = ctxInFlight \ {f}
  /\ chatLoading' = FALSE
  /\ UNCHANGED <<mounted, kgList, listPending, selectedKg, indexData, loading,
                 error, chatHistory, activeOverlay, mergedOverlay,
                 resetZoomTick, loadsInFlight>>
  /\ UNCHANGED <<normVars, ovVars, restVars, dockVars, auxVars>>

\* TopBar "Clear" (App.tsx lines 115-119), enabled when an overlay exists
ClearHighlights ==
  /\ ShellShown
  /\ (activeOverlay # Null \/ mergedOverlay # Null)
  /\ gestureCount < MaxGestures
  /\ gestureCount' = gestureCount + 1
  /\ activeOverlay' = Null
  /\ UNCHANGED <<mounted, kgList, listPending, selectedKg, indexData, loading,
                 error, chatLoading, chatHistory, mergedOverlay, resetZoomTick,
                 loadsInFlight, ctxInFlight>>
  /\ UNCHANGED <<normVars, ovVars, dockVars, sendCount, selCount, activeSrc, latestOk>>
  /\ UNCHANGED restVars

\* ChatDock "Clear" (part_002 lines 113-116): the dock's history is emptied,
\* reported to the App, and merged
ClearChat ==
  /\ ShellShown
  /\ gestureCount < MaxGestures
  /\ gestureCount' = gestureCount + 1
  /\ dockHistory' = <<>>
  /\ chatHistory' = <<>>
  /\ mergedOverlay' = mergeEffect(chatHistory', indexData, mergedOverlay)
  /\ UNCHANGED <<panelLoading, activeQid, histPending, sendsInFlight>>
  /\ UNCHANGED <<mounted, kgList, listPending, selectedKg, indexData, loading,
                 error, chatLoading, activeOverlay, resetZoomTick,
                 loadsInFlight, ctxInFlight>>
  /\ UNCHANGED <<normVars, ovVars, sendCount, selCount, activeSrc, latestOk>>
  /\ UNCHANGED restVars

\* TopBar "Zoom" (App.tsx line 168)
ResetZoom ==
  /\ ShellShown
  /\ gestureCount < MaxGestures
  /\ gestureCount' = gestureCount + 1
  /\ resetZoomTick' = resetZoomTick + 1
  /\ UNCHANGED <<mounted, kgList, listPending, selectedKg, indexData, loading,
                 error, chatLoading, chatHistory, activeOverlay, mergedOverlay,
                 loadsInFlight, ctxInFlight>>
  /\ UNCHANGED <<normVars, ovVars, dockVars, sendCount, selCount, activeSrc, latestOk>>
  /\ UNCHANGED restVars

Next ==
  \/ AppMount
  \/ ListKgsDone
  \/ ListKgsFail
  \/ \E kg \in Range(Kgs) : SwitchKg(kg)
  \/ \E kg \in Range(Kgs) : LoadIndexDone(kg)
  \/ \E kg \in Range(Kgs) : LoadIndexFail(kg)
  \/ HistoryDone
  \/ HistoryFail
  \/ \E useAnswer \in BOOLEAN : SendStart(useAnswer)
  \/ \E s \in sendsInFlight : SendDone(s)
  \/ \E s \in sendsInFlight : SendFail(s)
  \/ \E i \in 1..Len(dockHistory) : SelectMessage(i)
  \/ \E i \in 1..Len(dockHistory) : SelectWithoutQid(i)
  \/ \E f \in ctxInFlight : CtxDone(f)
  \/ \E f \in ctxInFlight : CtxFail(f)
  \/ ClearHighlights
  \/ ClearChat
  \/ ResetZoom

(***************************************************************************)
(* GraphCanvas.tsx: the overlay focus effect, the reset effect and the     *)
(* frame callbacks they request.  One action is one commit of new props    *)
(* (with the effects it runs) or one animation frame (which runs every     *)
(* callback requested so far, in the order of the requests).               *)
(***************************************************************************)
\* UTF-16 code units of the characters of the node ids of the model
CharCode(c) ==
  CASE c = "1" -> 49  [] c = "2" -> 50  [] c = "3" -> 51
    [] c = "a" -> 97  [] c = "b" -> 98  [] c = "e" -> 101
    [] c = "m" -> 109 [] c = "n" -> 110 [] c = "r" -> 114
    [] c = "s" -> 115 [] c = "t" -> 116 [] c = "|" -> 124
    [] OTHER -> 0

\* s < t in the order of Array.prototype.sort without a comparator
lexLess(s, t) ==
  \E i \in 1..(Len(s) + 1) :
    /\ \A j \in 1..(i - 1) : j <= Len(t) /\ s[j] = t[j]
    /\ \/ (i = Len(s) + 1 /\ Len(t) >= i)
       \/ (i <= Len(s) /\ i <= Len(t) /\ CharCode(s[i]) < CharCode(t[i]))

\* Array.from(focusSet).sort()
RECURSIVE sortStrings(_)
sortStrings(S) ==
  IF S = {} THEN <<>>
  ELSE LET least == CHOOSE x \in S : \A y \in S \ {x} : lexLess(x, y)
       IN  <<least>> \o sortStrings(S \ {least})

\* Array.prototype.join
RECURSIVE join(_, _)
join(strs, sep) ==
  IF strs = <<>> THEN <<>>
  ELSE IF Len(strs) = 1 THEN strs[1]
  ELSE strs[1] \o sep \o join(Tail(strs), sep)

\* Array.from(focusSet).sort().join('|')
signature(focusSet) == join(sortStrings(focusSet), <<"|">>)

\* the union of overlay?.hitNodeIds and overlay?.pathNodeIds
focusSetOf(ov) == IF ov = Null THEN {} ELSE ov.hitNodeIds \cup ov.pathNodeIds

\* useRef('')
InitialSig == <<>>

\* zoomSigRef.current = 'reset'
ResetSig == <<"r", "e", "s", "e", "t">>

\* requestAnimationFrame(() => zoomToFit(500, 40, n => focusSet.has(n.id)) ...)
FocusCallback(focusSet) == [kind |-> "focus", focus |-> focusSet, live |-> TRUE]

\* requestAnimationFrame(() => zoomToFit(500, 40) ... zoomSigRef = 'reset')
ResetCallback == [kind |-> "reset", focus |-> {}, live |-> TRUE]

\* a variant of focusEffect without the test for an empty focus set
focusEffectNoEmptyTest(ov, sig, queue) ==
  LET focusSet == focusSetOf(ov)
  IN  IF signature(focusSet) = sig THEN [sig |-> sig, queue |-> queue]
      ELSE [sig   |-> signature(focusSet),
            queue |-> Append(queue, FocusCallback(focusSet))]

\* the overlay focus effect (lines 68-84), run with a mounted graph handle
focusEffect(ov, sig, queue) ==
  LET focusSet == focusSetOf(ov)
  IN  IF focusSet = {} THEN [sig |-> sig, queue |-> queue]
      ELSE IF signature(focusSet) = sig THEN [sig |-> sig, queue |-> queue]
      ELSE [sig   |-> signature(focusSet),
            queue |-> Append(queue, FocusCallback(focusSet))]

\* the reset effect (lines 86-93), run with a mounted graph handle and a
\* defined resetZoomTick
resetEffect(queue) == Append(queue, ResetCallback)

\* the camera before any zoomToFit
NoCamera == [kind |-> "none", focus |-> {}]

\* the calls a frame callback makes on the graph handle: zoomToFit with a
\* filter for the focus set, zoomToFit without filter, d3ReheatSimulation
ZoomToFit(focusSet) ==
  [call |-> "zoomToFit", filter |-> "focus", focus |-> focusSet]
ZoomToFitAll == [call |-> "zoomToFit", filter |-> "none", focus |-> {}]
ReheatCall == [call |-> "d3ReheatSimulation", filter |-> "none", focus |-> {}]

\* one frame callback run: a callback of an unmounted canvas finds
\* fgRef.current null and raises; a focus callback fits the camera to the
\* focus set; a reset callback fits it to the whole graph and stores 'reset'
runCallback(st, cb) ==
  IF ~cb.live THEN [st EXCEPT !.raised = TRUE]
  ELSE IF cb.kind = "focus"
  THEN [st EXCEPT !.camera = [kind |-> "focus", focus |-> cb.focus],
                  !.reheats = @ + 1,
                  !.log = @ \o <<ZoomToFit(cb.focus), ReheatCall>>]
  ELSE [st EXCEPT !.camera = [kind |-> "full", focus |-> {}],
                  !.reheats = @ + 1,
                  !.log = @ \o <<ZoomToFitAll, ReheatCall>>,
                  !.sig = ResetSig]

\* a variant of runCallbacks that runs the callback requested last first
RECURSIVE runCallbacksLastFirst(_, _)
runCallbacksLastFirst(st, queue) ==
  IF queue = <<>> THEN st
  ELSE runCallbacksLastFirst(runCallback(st, queue[Len(queue)]),
                             SubSeq(queue, 1, Len(queue) - 1))

\* the callbacks of one animation frame, in the order they were requested
RECURSIVE runCallbacks(_, _)
runCallbacks(st, queue) ==
  IF queue = <<>> THEN st
  ELSE runCallbacks(runCallback(st, Head(queue)), Tail(queue))

\* node ids of the graphs shown: plain ids, an id that contains the
\* delimiter of the signature, an id that reads like the reset sentinel
IdA == <<"a">>
IdB == <<"b">>
IdAB == <<"a", "|", "b">>
IdReset == <<"r", "e", "s", "e", "t">>

\* the overlays given to the canvas: none, one without nodes, and overlays
\* with hit and path nodes
CanvasOverlays ==
  {Null} \cup
  { [hitNodeIds |-> h, pathNodeIds |-> p, pathEdgeKeys |-> {}] :
      h \in {{}, {IdA}, {IdAB}, {IdReset}}, p \in {{}, {IdB}} }

\* what the last event of the canvas was, what it was given and what it did:
\* the focus set presented, zoomSigRef before, the number of focus callbacks
\* requested, the focus set applied last before, and whether the reset effect
\* ran since that was applied ("mount": at mount, "tick": for a new tick)
NoEvent ==
  [kind |-> "none", focus |-> {}, sigBefore |-> InitialSig, scheduled |-> 0,
   prevApplied |-> {}, resetSince |-> "no"]

CanvasIdle ==
  /\ cMounted = FALSE
  /\ cOverlay = Null
  /\ zoomSigRef = InitialSig
  /\ frameQueue = <<>>
  /\ camera = NoCamera
  /\ cRaised = FALSE
  /\ cLast = NoEvent
  /\ cApplied = {}
  /\ cResetSince = "no"
  /\ cLog = <<>>

\* the state before the canvas is mounted
CanvasInit == CanvasIdle

\* the record of an event that ran the focus effect for ov
FocusEvent(kind, ov, r) ==
  [kind        |-> kind,
   focus       |-> focusSetOf(ov),
   sigBefore   |-> zoomSigRef,
   scheduled   |-> Len(r.queue) - Len(frameQueue),
   prevApplied |-> cApplied,
   resetSince  |-> cResetSince]

\* the canvas mounts with an overlay and a resetZoomTick: both effects run,
\* the focus effect first
CanvasMount(ov) ==
  /\ ~cMounted
  /\ LET r == focusEffect(ov, InitialSig, frameQueue)
     IN  /\ Len(resetEffect(r.queue)) <= MaxPending
         /\ zoomSigRef' = r.sig
         /\ frameQueue' = resetEffect(r.queue)
         /\ cLast' = [FocusEvent("mount", ov, r) EXCEPT !.sigBefore = InitialSig]
         /\ cApplied' = IF r.queue # frameQueue THEN focusSetOf(ov) ELSE {}
  /\ cMounted' = TRUE
  /\ cOverlay' = ov
  /\ cResetSince' = "mount"
  /\ cLog' = <<>>
  /\ UNCHANGED <<camera, cRaised>>
  /\ UNCHANGED <<normVars, ovVars, appVars, dockVars, auxVars, bandVars,
                 rawVars, moreVars>>

\* a new overlay prop (a new object, or null after an object): the focus
\* effect runs
PresentOverlay(ov) ==
  /\ cMounted
  /\ ~(ov = Null /\ cOverlay = Null)
  /\ LET r == focusEffect(ov, zoomSigRef, frameQueue)
     IN  /\ Len(r.queue) <= MaxPending
         /\ zoomSigRef' = r.sig
         /\ frameQueue' = r.queue
         /\ cLast' = FocusEvent("present", ov, r)
         /\ cApplied' = IF r.queue # frameQueue THEN focusSetOf(ov) ELSE cApplied
         /\ cResetSince' = IF r.queue # frameQueue THEN "no" ELSE cResetSince
  /\ cOverlay' = ov
  /\ cLog' = <<>>
  /\ UNCHANGED <<cMounted, camera, cRaised>>
  /\ UNCHANGED <<normVars, ovVars, appVars, dockVars, auxVars, bandVars,
                 rawVars, moreVars>>

\* a new resetZoomTick prop: the reset effect runs
ResetView ==
  /\ cMounted
  /\ Len(resetEffect(frameQueue)) <= MaxPending
  /\ frameQueue' = resetEffect(frameQueue)
  /\ cLast' = [kind |-> "reset", focus |-> {}, sigBefore |-> zoomSigRef,
               scheduled |-> 1, prevApplied |-> cApplied,
               resetSince |-> cResetSince]
  /\ cResetSince' = "tick"
  /\ cLog' = <<>>
  /\ UNCHANGED <<cMounted, cOverlay, zoomSigRef, camera, cRaised, cApplied>>
  /\ UNCHANGED <<normVars, ovVars, appVars, dockVars, auxVars, bandVars,
                 rawVars, moreVars>>

\* a new overlay and a new resetZoomTick in one commit (as handleMessageSelect
\* sets them): the focus effect runs, then the reset effect
PresentAndReset(ov) ==
  /\ cMounted
  /\ ov # Null
  /\ LET r == focusEffect(ov, zoomSigRef, frameQueue)
     IN  /\ Len(resetEffect(r.queue)) <= MaxPending
         /\ zoomSigRef' = r.sig
         /\ frameQueue' = resetEffect(r.queue)
         /\ cLast' = [FocusEvent("present", ov, r) EXCEPT !.kind = "presentReset"]
         /\ cApplied' = IF r.queue # frameQueue THEN focusSetOf(ov) ELSE cApplied
  /\ cOverlay' = ov
  /\ cResetSince' = "tick"
  /\ cLog' = <<>>
  /\ UNCHANGED <<cMounted, camera, cRaised>>
  /\ UNCHANGED <<normVars, ovVars, appVars, dockVars, auxVars, bandVars,
                 rawVars, moreVars>>

\* an animation frame: every requested callback runs
RunFrame ==
  /\ frameQueue # <<>>
  /\ LET st == runCallbacks([sig |-> zoomSigRef, camera |-> camera,
                             raised |-> cRaised, reheats |-> 0,
                             log |-> <<>>], frameQueue)
     IN  /\ zoomSigRef' = st.sig
         /\ camera' = st.camera
         /\ cRaised' = st.raised
         /\ cLog' = st.log
         /\ cLast' = [kind |-> "frame", focus |-> {}, sigBefore |-> zoomSigRef,
                      scheduled |-> 0, prevApplied |-> cApplied,
                      resetSince |-> cResetSince]
  /\ frameQueue' = <<>>
  /\ UNCHANGED <<cMounted, cOverlay, cApplied, cResetSince>>
  /\ UNCHANGED <<normVars, ovVars, appVars, dockVars, auxVars, bandVars,
                 rawVars, moreVars>>

\* the canvas unmounts (the App shows its loading or error screen): its refs
\* are dropped and fgRef.current is null for the callbacks still requested
CanvasUnmount ==
  /\ cMounted
  /\ cMounted' = FALSE
  /\ cOverlay' = Null
  /\ zoomSigRef' = InitialSig
  /\ frameQueue' = [i \in 1..Len(frameQueue) |->
                      [frameQueue[i] EXCEPT !.live = FALSE]]
  /\ camera' = NoCamera
  /\ cLast' = [NoEvent EXCEPT !.kind = "unmount"]
  /\ cApplied' = {}
  /\ cResetSince' = "no"
  /\ cLog' = <<>>
  /\ UNCHANGED cRaised
  /\ UNCHANGED <<normVars, ovVars, appVars, dockVars, auxVars, bandVars,
                 rawVars, moreVars>>

CanvasNext ==
  \/ \E ov \in CanvasOverlays : CanvasMount(ov)
  \/ \E ov \in CanvasOverlays : PresentOverlay(ov)
  \/ \E ov \in CanvasOverlays : PresentAndReset(ov)
  \/ ResetView
  \/ RunFrame
  \/ CanvasUnmount

(***************************************************************************)
(* GraphCanvas.tsx: minLevel/maxLevel and the band effect (lines 95-117).  *)
(* A target y is the exact quotient num/den of the code's floating-point   *)
(* expression; den is the divisor "levels" and is positive.                *)
(***************************************************************************)
\* const padding = 48
Padding == 48

Max(a, b) == IF a >= b THEN a ELSE b

\* the useMemo of lines 95-104: [0, 0] for an empty node list
minLevelOf(nodeLevels) ==
  IF nodeLevels = <<>> THEN 0
  ELSE CHOOSE l \in Range(nodeLevels) : \A k \in Range(nodeLevels) : l <= k

maxLevelOf(nodeLevels) ==
  IF nodeLevels = <<>> THEN 0
  ELSE CHOOSE l \in Range(nodeLevels) : \A k \in Range(nodeLevels) : l >= k

\* a variant of levelCount that is the difference of the two levels
levelCountDifference(minLevel, maxLevel) == maxLevel - minLevel

\* const levels = maxLevel - minLevel + 1 || 1
levelCount(minLevel, maxLevel) ==
  IF maxLevel - minLevel + 1 = 0 THEN 1 ELSE maxLevel - minLevel + 1

\* const innerHeight = Math.max(1, dims.h - padding * 2)
innerHeight(h) == Max(1, h - Padding * 2)

\* a variant of yFor that counts the levels from the top edge
yForFromTop(lvl, h, minLevel, maxLevel) ==
  LET levels == levelCount(minLevel, maxLevel)
  IN  [num |-> Padding * levels + (lvl - minLevel) * innerHeight(h),
       den |-> levels]

\* yFor(lvl) = (dims.h - padding) - (lvl - minLevel) * spacing, with
\* spacing = innerHeight / levels
yFor(lvl, h, minLevel, maxLevel) ==
  LET levels == levelCount(minLevel, maxLevel)
  IN  [num |-> (h - Padding) * levels - (lvl - minLevel) * innerHeight(h),
       den |-> levels]

\* node levels of the graphs given to the canvas
LevelPool == {0, 1, 5, 9}

\* viewport heights: not laid out yet, smaller than the padding, and usual
Heights == {0, 10, 400, 401}

\* viewport widths
Widths == {300, 301}

\* node levels of the graphs a mounted canvas is given in place of its first
SwapLevels == { <<>>, <<0, 9>>, <<0, 5, 9>>, <<1, 5>> }

\* what the band effect closes over when it installs the levelY force:
\* dims.h, minLevel, levels and spacing = innerHeight / levels
closureOf(h, nodeLevels) ==
  LET minLevel == minLevelOf(nodeLevels)
      maxLevel == maxLevelOf(nodeLevels)
  IN  [h |-> h, minLevel |-> minLevel, maxLevel |-> maxLevel,
       levels  |-> levelCount(minLevel, maxLevel),
       spacing |-> [num |-> innerHeight(h),
                    den |-> levelCount(minLevel, maxLevel)]]

\* no levelY force is installed
NoClosure == [h |-> 0, minLevel |-> 0, maxLevel |-> 0, levels |-> 0,
              spacing |-> [num |-> 0, den |-> 0]]

\* the targets the installed force gives the nodes of a graph: yFor(d.level)
\* with the values closed over
forceTargets(closure, nodeLevels) ==
  IF closure = NoClosure THEN <<>>
  ELSE [lvl \in Range(nodeLevels) |->
          yFor(lvl, closure.h, closure.minLevel, closure.maxLevel)]

\* the dependencies of the band effect: [dims.h, minLevel, maxLevel]
bandDeps(h, nodeLevels) == <<h, minLevelOf(nodeLevels), maxLevelOf(nodeLevels)>>

NoBandEvent == [kind |-> "none", sizeChanged |-> FALSE, levelsChanged |-> FALSE,
                ran |-> FALSE]

BandIdle ==
  /\ bLevels = <<>>
  /\ bHeight = 0
  /\ bForce = <<>>
  /\ bPc = "idle"
  /\ bWidth = 0
  /\ bClosure = NoClosure
  /\ bLast = NoBandEvent

BandInit ==
  /\ bLevels \in StringsUpTo(LevelPool, MaxBandNodes)
  /\ bHeight \in Heights
  /\ bForce = <<>>
  /\ bPc = "input"
  /\ bWidth \in Widths
  /\ bClosure = NoClosure
  /\ bLast = NoBandEvent

\* the band effect with a viewport height: the levelY force gets the target
\* yFor(level) of every node
BandEffect ==
  /\ bPc = "input"
  /\ bHeight # 0
  /\ bForce' = [lvl \in Range(bLevels) |->
                  yFor(lvl, bHeight, minLevelOf(bLevels), maxLevelOf(bLevels))]
  /\ bPc' = "installed"
  /\ bClosure' = closureOf(bHeight, bLevels)
  /\ bLast' = [NoBandEvent EXCEPT !.kind = "first", !.ran = TRUE]
  /\ UNCHANGED <<bLevels, bHeight, bWidth>>
  /\ UNCHANGED <<normVars, ovVars, appVars, dockVars, auxVars, canvasVars,
                 rawVars, moreVars>>

\* the band effect before the viewport has a height: it returns at once
BandEffectNoHeight ==
  /\ bPc = "input"
  /\ bHeight = 0
  /\ bPc' = "skipped"
  /\ bLast' = [NoBandEvent EXCEPT !.kind = "first"]
  /\ UNCHANGED <<bLevels, bHeight, bForce, bWidth, bClosure>>
  /\ UNCHANGED <<normVars, ovVars, appVars, dockVars, auxVars, canvasVars,
                 rawVars, moreVars>>

\* a render with the height h and the node levels nodeLevels after a render
\* with bHeight and bLevels: the band effect runs when one of its
\* dependencies differs, and past its guard installs the force and reheats;
\* otherwise the force installed before stays
bandRerender(kind, w, h, nodeLevels) ==
  LET depsChanged == bandDeps(h, nodeLevels) # bandDeps(bHeight, bLevels)
      runs        == depsChanged /\ h # 0
  IN  /\ bClosure' = IF runs THEN closureOf(h, nodeLevels) ELSE bClosure
      /\ bForce' = forceTargets(bClosure', nodeLevels)
      /\ bPc' = IF runs THEN "installed"
                ELSE IF depsChanged THEN "skipped"
                ELSE bPc
      /\ bLast' = [kind          |-> kind,
                   sizeChanged   |-> <<w, h>> # <<bWidth, bHeight>>,
                   levelsChanged |-> Range(nodeLevels) # Range(bLevels),
                   ran           |-> runs]
      /\ bWidth' = w
      /\ bHeight' = h
      /\ bLevels' = nodeLevels

\* the ResizeObserver reports another size: updateDims sets dims
Resize(w, h) ==
  /\ bPc \in {"installed", "skipped"}
  /\ <<w, h>> # <<bWidth, bHeight>>
  /\ bandRerender("resize", w, h, bLevels)
  /\ UNCHANGED <<normVars, ovVars, appVars, dockVars, auxVars, canvasVars,
                 rawVars, moreVars>>

\* the canvas gets another data prop
SwapGraph(nodeLevels) ==
  /\ bPc \in {"installed", "skipped"}
  /\ nodeLevels # bLevels
  /\ bandRerender("graph", bWidth, bHeight, nodeLevels)
  /\ UNCHANGED <<normVars, ovVars, appVars, dockVars, auxVars, canvasVars,
                 rawVars, moreVars>>

BandNext ==
  \/ BandEffect
  \/ BandEffectNoHeight
  \/ \E w \in Widths, h \in Heights : Resize(w, h)
  \/ \E nodeLevels \in SwapLevels : SwapGraph(nodeLevels)

(***************************************************************************)
(* A stored context.json on its way through getContextData (api.ts) into   *)
(* buildOverlay.  Values are kept as received: every value carries its     *)
(* JavaScript type, so that an absent or null value is told from a string  *)
(* or an array.                                                            *)
(***************************************************************************)
JUndefined == [type |-> "undefined"]
JNull == [type |-> "null"]
JString(s) == [type |-> "string", val |-> s]
JArray(items) == [type |-> "array", val |-> items]

\* v == null (v is null or undefined)
isNullish(v) == v.type \in {"undefined", "null"}

\* what a failed property read, iteration or method call raises
TypeError == [raised |-> "TypeError"]

\* EMPTY_NODE_HITS (api.ts lines 17-31)
EMPTY_NODE_HITS ==
  [type |-> "object", node_datas |-> JArray(<<>>),
   use_reasoning_path |-> JArray(<<>>)]

\* getContextData (api.ts lines 239-246): node_hits: ctx.node_hits ?? EMPTY_NODE_HITS
getContextData(ctx) ==
  [node_hits |-> IF isNullish(ctx.node_hits) THEN EMPTY_NODE_HITS
                 ELSE ctx.node_hits]

\* the strings of an array of received strings
unwrapStrings(items) == [i \in 1..Len(items) |-> items[i].val]

\* buildOverlay on a result as received: iterating an absent node_datas,
\* calling replace on an absent entity_name or src_tgt element, or reading a
\* field of an absent node_hits raises TypeError; an absent
\* use_reasoning_path is replaced by [] (?? [])
buildOverlayReceived(res, nodes) ==
  IF isNullish(res.node_hits) THEN TypeError
  ELSE IF isNullish(res.node_hits.node_datas) THEN TypeError
  ELSE
    LET nds       == res.node_hits.node_datas.val
        reasoning == IF isNullish(res.node_hits.use_reasoning_path) THEN <<>>
                     ELSE res.node_hits.use_reasoning_path.val
    IN  IF \E i \in 1..Len(nds) : isNullish(nds[i].entity_name) THEN TypeError
        ELSE IF \E i \in 1..Len(reasoning) :
                  \E j \in 1..2 : isNullish(reasoning[i].src_tgt[j])
        THEN TypeError
        ELSE buildOverlay(
               [node_hits |->
                  [node_datas |->
                     [i \in 1..Len(nds) |-> [entity_name |-> nds[i].entity_name.val]],
                   use_reasoning_path |->
                     [i \in 1..Len(reasoning) |->
                        [src_tgt |-> unwrapStrings(reasoning[i].src_tgt)]]]],
               nodes)

\* node_datas of stored contexts: absent, empty, well-formed, and with an
\* entity_name that is null or missing
StoredNodeDatas ==
  { JUndefined,
    JArray(<<>>),
    JArray(<< [entity_name |-> JString(EGG)] >>),
    JArray(<< [entity_name |-> JNull] >>),
    JArray(<< [entity_name |-> JNull], [entity_name |-> JString(EGG)] >>),
    JArray(<< [entity_name |-> JString(EGG)], [entity_name |-> JUndefined] >>) }

\* use_reasoning_path of stored contexts: absent, empty, well-formed, and
\* with a src_tgt element that is null
StoredReasoningPaths ==
  { JUndefined,
    JArray(<<>>),
    JArray(<< [src_tgt |-> <<JString(Egg), JString(Boil)>>] >>),
    JArray(<< [src_tgt |-> <<JNull, JString(Boil)>>] >>),
    JArray(<< [src_tgt |-> <<JString(Egg), JString(Boil)>>],
              [src_tgt |-> <<JString(Boil), JNull>>] >>) }

StoredContexts ==
  { [node_hits |-> JUndefined] } \cup
  { [node_hits |-> [type |-> "object", node_datas |-> nd,
                    use_reasoning_path |-> rp]] :
      nd \in StoredNodeDatas, rp \in StoredReasoningPaths }

RawIdle ==
  /\ xCtx = [node_hits |-> JUndefined]
  /\ xNodes = <<>>
  /\ xRes = [node_hits |-> JUndefined]
  /\ xOut = EmptyOverlay
  /\ xPc = "idle"

RawInit ==
  /\ xCtx \in StoredContexts
  /\ xNodes \in {<<>>, ScenarioNodes}
  /\ xRes = [node_hits |-> JUndefined]
  /\ xOut = EmptyOverlay
  /\ xPc = "input"

\* getContextData resolved with the stored context
FetchContext ==
  /\ xPc = "input"
  /\ xRes' = getContextData(xCtx)
  /\ xPc' = "fetched"
  /\ UNCHANGED <<xCtx, xNodes, xOut>>
  /\ UNCHANGED <<normVars, ovVars, appVars, dockVars, auxVars, canvasVars,
                 bandVars, moreVars>>

\* buildOverlay(ctx, indexData.nodes) in handleMessageSelect (App.tsx line 101)
BuildFromContext ==
  /\ xPc = "fetched"
  /\ xOut' = buildOverlayReceived(xRes, xNodes)
  /\ xPc' = "built"
  /\ UNCHANGED <<xCtx, xNodes, xRes>>
  /\ UNCHANGED <<normVars, ovVars, appVars, dockVars, auxVars, canvasVars,
                 bandVars, moreVars>>

RawNext == FetchContext \/ BuildFromContext

(***************************************************************************)
(* GraphCanvas.tsx: styling of nodes and links.                            *)
(***************************************************************************)
PATH_FILL == "#3B82F6"
HIT_FILL == "#dc143c"
PATH_EDGE == "#FB8C00"
OTHER_EDGE == "rgba(0,0,0,0.1)"

LEVEL_PALETTE ==
  << "#4F46E5", "#10B981", "#F59E0B", "#06B6D4", "#8B5CF6",
     "#22C55E", "#F97316", "#14B8A6", "#A855F7", "#84CC16",
     "#0EA5E9", "#E11D48", "#7C3AED", "#059669", "#D97706",
     "#0D9488", "#DB2777", "#2563EB", "#16A34A", "#EA580C",
     "#1E293B", "#EF4444", "#0284C7", "#6D28D9", "#65A30D",
     "#DC2626", "#0891B2", "#9333EA", "#22D3EE", "#F43F5E" >>

\* LEVEL_PALETTE[index % LEVEL_PALETTE.length], index counted from 0
paletteAt(index) == LEVEL_PALETTE[(index % Len(LEVEL_PALETTE)) + 1]

\* Array.from(new Set(levels)).sort((a, b) => a - b)
RECURSIVE sortLevels(_)
sortLevels(S) ==
  IF S = {} THEN <<>>
  ELSE LET lo == CHOOSE l \in S : \A k \in S : l <= k
       IN  <<lo>> \o sortLevels(S \ {lo})

\* levelColorMap: levels.forEach((lvl, index) => m.set(lvl, palette entry))
levelColorMap(nodes) ==
  LET levels == sortLevels({nodes[i].level : i \in 1..Len(nodes)})
  IN  [lvl \in Range(levels) |->
         paletteAt((CHOOSE i \in 1..Len(levels) : levels[i] = lvl) - 1)]

\* a variant of getLevelColor that indexes the palette by the level's value
getLevelColorByValue(lvl, nodes) == paletteAt(lvl)

\* getLevelColor(lvl) = levelColorMap.get(lvl) ?? LEVEL_PALETTE[lvl % length]
getLevelColor(lvl, nodes) ==
  IF lvl \in DOMAIN levelColorMap(nodes) THEN levelColorMap(nodes)[lvl]
  ELSE paletteAt(lvl)

\* hasOverlay: the overlay is an object and one of its sets has an element
hasOverlay(overlay) ==
  /\ overlay # Null
  /\ \/ overlay.hitNodeIds # {}
     \/ overlay.pathNodeIds # {}
     \/ overlay.pathEdgeKeys # {}

\* overlay?.hitNodeIds.has(n.id) ?? false
isHitNode(overlay, n) == overlay # Null /\ n.id \in overlay.hitNodeIds

\* overlay?.pathNodeIds.has(n.id) ?? false
isPathNode(overlay, n) == overlay # Null /\ n.id \in overlay.pathNodeIds

LevelStyle(levelColor) ==
  [fill |-> levelColor, stroke |-> "transparent", lineWidth |-> 0,
   glow |-> FALSE, r |-> 3]

HitStyle(levelColor) ==
  [fill |-> HIT_FILL, stroke |-> levelColor, lineWidth |-> 2,
   glow |-> TRUE, r |-> 5]

PathStyle(levelColor) ==
  [fill |-> PATH_FILL, stroke |-> levelColor, lineWidth |-> 2,
   glow |-> FALSE, r |-> 4]

\* a variant of resolveNodeStyle that tests path membership first
resolveNodeStylePathFirst(n, overlay, nodes) ==
  LET levelColor == getLevelColor(n.level, nodes)
  IN  IF ~hasOverlay(overlay) THEN LevelStyle(levelColor)
      ELSE IF isPathNode(overlay, n) THEN PathStyle(levelColor)
      ELSE IF isHitNode(overlay, n) THEN HitStyle(levelColor)
      ELSE LevelStyle(levelColor)

\* resolveNodeStyle(n) (lines 124-136)
resolveNodeStyle(n, overlay, nodes) ==
  LET levelColor == getLevelColor(n.level, nodes)
  IN  IF ~hasOverlay(overlay) THEN LevelStyle(levelColor)
      ELSE IF isHitNode(overlay, n) THEN HitStyle(levelColor)
      ELSE IF isPathNode(overlay, n) THEN PathStyle(levelColor)
      ELSE LevelStyle(levelColor)

\* an endpoint of a link: the id string as loaded, or the node object the
\* graph library puts in its place
EndString(id) == [type |-> "string", val |-> id]
EndObject(id) == [type |-> "object", id |-> id]

\* a variant of edgeKey that joins the ids as they are
edgeKeyRaw(e) ==
  LET g(x) == IF x.type = "string" THEN x.val ELSE x.id
  IN  joinKey(g(e.source), g(e.target))

\* a variant of edgeKey that normalizes an endpoint only while it is a string
\* and takes the id of a node object as it is
edgeKeyObjectIdRaw(e) ==
  LET g(x) == IF x.type = "string" THEN normalize(x.val) ELSE x.id
  IN  joinKey(g(e.source), g(e.target))

\* edgeKey(e) (overlay.ts lines 48-51)
edgeKey(e) ==
  LET g(x) == IF x.type = "string" THEN normalize(x.val) ELSE normalize(x.id)
  IN  joinKey(g(e.source), g(e.target))

\* overlay?.pathEdgeKeys.has(edgeKey(l)) ?? false
isPathEdge(overlay, l) == overlay # Null /\ edgeKey(l) \in overlay.pathEdgeKeys

linkWidth(overlay, l) == IF isPathEdge(overlay, l) THEN 3 ELSE 1

linkColor(overlay, l) == IF isPathEdge(overlay, l) THEN PATH_EDGE ELSE OTHER_EDGE

\* the value of undefined returned as a mode
NoMode == "undefined"

\* a variant of linkCanvasObjectMode that replaces every bridge edge
linkCanvasObjectModeAllBridges(overlay, l) ==
  IF l.edge_type = "bridge" THEN "replace" ELSE NoMode

linkCanvasObjectMode(overlay, l) ==
  IF l.edge_type = "bridge" /\ isPathEdge(overlay, l) THEN "replace" ELSE NoMode

\* linkCanvasObject: the strokes it puts on the canvas
linkCanvasObject(overlay, l) ==
  IF ~(l.edge_type = "bridge" /\ isPathEdge(overlay, l)) THEN {}
  ELSE {[dash |-> TRUE, lineWidth |-> 3, strokeStyle |-> PATH_EDGE]}

\* what the graph component puts on the canvas for a link: in 'replace' mode
\* the custom routine alone, otherwise its own solid line in linkColor and
\* linkWidth
paintLink(overlay, l) ==
  [mode    |-> linkCanvasObjectMode(overlay, l),
   strokes |-> IF linkCanvasObjectMode(overlay, l) = "replace"
               THEN linkCanvasObject(overlay, l)
               ELSE {[dash |-> FALSE, lineWidth |-> linkWidth(overlay, l),
                      strokeStyle |-> linkColor(overlay, l)]}]

\* the ids of the graphs painted
RenderIds == <<Egg, Boil, Zz>>

\* levels of the nodes, with two levels that are equal modulo the palette
\* length
RenderLevels == {0, 5, 9, 30}

\* data.nodes of a graph whose i-th node has level levels[i]
renderNodes(levels) ==
  [i \in 1..Len(levels) |->
     [id |-> RenderIds[i], label |-> Empty, description |-> Empty,
      level |-> levels[i]]]

\* retrieval results whose overlays are given to the canvas: no item, a hit,
\* a path, a hit node that is also on a path
RenderResults ==
  { [node_hits |->
       [node_datas         |-> [i \in 1..Len(ns) |-> [entity_name |-> ns[i]]],
        use_reasoning_path |-> [i \in 1..Len(ps) |-> [src_tgt |-> ps[i]]]]] :
    ns \in {<<>>, <<EGG>>},
    ps \in {<<>>, << <<EggLowerSp, BoilQuoted>> >>, << <<Zz, Egg>> >>} }

\* links between two different nodes, of either kind, before and after the
\* graph library has resolved the endpoints
RenderLinks ==
  LET ends == {q \in Range(RenderIds) \X Range(RenderIds) : q[1] # q[2]}
  IN  UNION {
        { [source |-> EndString(p[1]), target |-> EndString(p[2]),
           edge_type |-> t],
          [source |-> EndObject(p[1]), target |-> EndObject(p[2]),
           edge_type |-> t] } :
        p \in ends, t \in {"bridge", "normal"} }

NoPaint == [mode |-> NoMode, strokes |-> {}]

RenderIdle ==
  /\ rLevels = <<>>
  /\ rRes = NoRetrieval
  /\ rOverlay = Null
  /\ rLink = [source |-> EndString(Empty), target |-> EndString(Empty),
              edge_type |-> "normal"]
  /\ rNodeStyle = <<>>
  /\ rLinkPaint = NoPaint
  /\ rPainted = {}

RenderInit ==
  /\ rLevels \in [1..Len(RenderIds) -> RenderLevels]
  /\ rRes \in {NoRetrieval} \cup RenderResults
  /\ rOverlay = IF rRes = NoRetrieval THEN Null
                ELSE buildOverlay(rRes, renderNodes(rLevels))
  /\ rLink \in RenderLinks
  /\ rNodeStyle = <<>>
  /\ rLinkPaint = NoPaint
  /\ rPainted = {}

\* nodeCanvasObject is called for every node of the graph
PaintNodes ==
  /\ "nodes" \notin rPainted
  /\ rLevels # <<>>
  /\ rNodeStyle' = [i \in 1..Len(rLevels) |->
                      resolveNodeStyle(renderNodes(rLevels)[i], rOverlay,
                                       renderNodes(rLevels))]
  /\ rPainted' = rPainted \cup {"nodes"}
  /\ UNCHANGED <<rLevels, rRes, rOverlay, rLink, rLinkPaint>>
  /\ UNCHANGED <<normVars, ovVars, appVars, dockVars, auxVars, canvasVars,
                 bandVars, rawVars, heapVars, drawerVars>>

\* the link is painted
PaintLink ==
  /\ "link" \notin rPainted
  /\ rLevels # <<>>
  /\ rLinkPaint' = paintLink(rOverlay, rLink)
  /\ rPainted' = rPainted \cup {"link"}
  /\ UNCHANGED <<rLevels, rRes, rOverlay, rLink, rNodeStyle>>
  /\ UNCHANGED <<normVars, ovVars, appVars, dockVars, auxVars, canvasVars,
                 bandVars, rawVars, heapVars, drawerVars>>

RenderNext == PaintNodes \/ PaintLink

(***************************************************************************)
(* App.tsx and overlay.ts with the Set objects of the overlays kept apart: *)
(* hHeap[r] is the content of the Set object r, an overlay holds the       *)
(* references of its three Sets.                                           *)
(***************************************************************************)
\* three new Set objects hold the elements of the overlay value v: the
\* reference of a new object is the next index of the heap
allocOverlay(heap, v) ==
  [heap |-> heap \o <<v.hitNodeIds, v.pathNodeIds, v.pathEdgeKeys>>,
   ov   |-> [hitNodeIds   |-> Len(heap) + 1,
             pathNodeIds  |-> Len(heap) + 2,
             pathEdgeKeys |-> Len(heap) + 3]]

\* buildOverlay(res, nodes) (overlay.ts lines 27-44): its three Sets are
\* created by the call and filled before the overlay is returned
buildOverlayHeap(heap, res, nodes) == allocOverlay(heap, buildOverlay(res, nodes))

\* the Sets of the overlays that the loop of the merge effect builds, one
\* overlay for each message with a retrieval (App.tsx line 84); the loop
\* reads them and drops them
RECURSIVE loopOverlays(_, _)
loopOverlays(hist, nodes) ==
  IF hist = <<>> THEN <<>>
  ELSE LET msg == Head(hist)
       IN  IF msg.retrieval = NoRetrieval THEN loopOverlays(Tail(hist), nodes)
           ELSE allocOverlay(<<>>, buildOverlay(msg.retrieval, nodes)).heap
                  \o loopOverlays(Tail(hist), nodes)

\* a variant of mergeEffectHeap that adds to the Sets of the overlay stored
\* before instead of creating new ones
mergeEffectHeapInPlace(heap, hist, idx, prev) ==
  IF idx = NoIndex THEN [heap |-> heap, ov |-> prev]
  ELSE LET merged == mergeLoop(EmptyOverlay, hist, GraphNodes(idx))
       IN  IF prev = Null
           THEN [heap |-> allocOverlay(heap, merged).heap
                            \o loopOverlays(hist, GraphNodes(idx)),
                 ov   |-> allocOverlay(heap, merged).ov]
           ELSE [heap |-> [r \in 1..Len(heap) |->
                             IF r = prev.hitNodeIds
                               THEN heap[r] \cup merged.hitNodeIds
                             ELSE IF r = prev.pathNodeIds
                               THEN heap[r] \cup merged.pathNodeIds
                             ELSE IF r = prev.pathEdgeKeys
                               THEN heap[r] \cup merged.pathEdgeKeys
                             ELSE heap[r]]
                            \o loopOverlays(hist, GraphNodes(idx)),
                 ov   |-> prev]

\* the merge effect (App.tsx lines 76-90): hits, pathNodes and pathEdges are
\* new Sets (lines 78-80), filled by the loop with the elements of each
\* message's overlay and then stored by setMergedOverlay; prev is
\* mergedOverlay before the run
mergeEffectHeap(heap, hist, idx, prev) ==
  IF idx = NoIndex THEN [heap |-> heap, ov |-> prev]
  ELSE LET merged == mergeLoop(EmptyOverlay, hist, GraphNodes(idx))
       IN  [heap |-> allocOverlay(heap, merged).heap
                       \o loopOverlays(hist, GraphNodes(idx)),
            ov   |-> allocOverlay(heap, merged).ov]

\* the Set objects of an overlay
refsOf(ov) ==
  IF ov = Null THEN {}
  ELSE {ov.hitNodeIds, ov.pathNodeIds, ov.pathEdgeKeys}

\* retrieval payloads of the messages appended and contexts of the messages
\* selected
HeapResults == {ScenarioResult, ServerCtx("A", "q2"), SendRetrieval("A", 1)}

HeapIdle ==
  /\ hHeap = <<>>
  /\ hActive = Null
  /\ hMerged = Null
  /\ hHistory = <<>>
  /\ hIndex = NoIndex
  /\ hLoading = FALSE
  /\ hOps = 0
  /\ hPublished = {}

\* the App with its first graph selected and the index requested
HeapInit ==
  /\ hHeap = <<>>
  /\ hActive = Null
  /\ hMerged = Null
  /\ hHistory = <<>>
  /\ hIndex = NoIndex
  /\ hLoading = TRUE
  /\ hOps = 0
  /\ hPublished = {}

\* the merge effect after a change of chatHistory or indexData, in the
\* commit that stores active as activeOverlay
HeapMerge(heap, hist, idx, active) ==
  LET r == mergeEffectHeap(heap, hist, idx, hMerged)
  IN  /\ hHeap' = r.heap
      /\ hMerged' = r.ov
      /\ hActive' = active
      /\ hPublished' = hPublished \cup refsOf(r.ov) \cup refsOf(active)

\* getIndex resolved (App.tsx line 65): a graph switch completes
HeapIndexLoaded(kg) ==
  /\ hLoading
  /\ hLoading' = FALSE
  /\ hIndex' = kg
  /\ HeapMerge(hHeap, hHistory, kg, hActive)
  /\ UNCHANGED <<hHistory, hOps>>
  /\ UNCHANGED <<normVars, ovVars, appVars, dockVars, auxVars, canvasVars,
                 bandVars, rawVars, renderVars, drawerVars>>

\* onKgChange and the selectedKg effect (App.tsx lines 54-60): both overlays
\* are set to null and the history to a new empty array
HeapSwitchKg ==
  /\ ~hLoading
  /\ hOps < MaxGestures
  /\ hOps' = hOps + 1
  /\ hLoading' = TRUE
  /\ hActive' = Null
  /\ hHistory' = <<>>
  /\ LET r == mergeEffectHeap(hHeap, <<>>, hIndex, Null)
     IN  /\ hHeap' = r.heap
         /\ hMerged' = r.ov
         /\ hPublished' = hPublished \cup refsOf(r.ov)
  /\ UNCHANGED hIndex
  /\ UNCHANGED <<normVars, ovVars, appVars, dockVars, auxVars, canvasVars,
                 bandVars, rawVars, renderVars, drawerVars>>

\* onHistoryChange with a history that has one more message (a message
\* append)
HeapAppend(res) ==
  /\ ~hLoading
  /\ hOps < MaxGestures
  /\ hOps' = hOps + 1
  /\ hHistory' = Append(hHistory,
                        Msg(SendQids[Len(hHistory) + 1], "temp_user", res))
  /\ HeapMerge(hHeap, hHistory', hIndex, hActive)
  /\ UNCHANGED <<hIndex, hLoading>>
  /\ UNCHANGED <<normVars, ovVars, appVars, dockVars, auxVars, canvasVars,
                 bandVars, rawVars, renderVars, drawerVars>>

\* handleMessageSelect with the context ctx of the i-th message (App.tsx
\* lines 100-106): buildOverlay, setActiveOverlay, the message is enriched
\* and the merge effect runs
HeapSelect(i, ctx) ==
  /\ ~hLoading
  /\ i \in 1..Len(hHistory)
  /\ hOps < MaxGestures
  /\ hOps' = hOps + 1
  /\ LET b == buildOverlayHeap(hHeap, ctx, GraphNodes(hIndex))
     IN  /\ hHistory' = enrich(hHistory, hHistory[i].id, ctx)
         /\ HeapMerge(b.heap, hHistory', hIndex, b.ov)
  /\ UNCHANGED <<hIndex, hLoading>>
  /\ UNCHANGED <<normVars, ovVars, appVars, dockVars, auxVars, canvasVars,
                 bandVars, rawVars, renderVars, drawerVars>>

\* clearHighlights (App.tsx lines 115-119)
HeapClear ==
  /\ ~hLoading
  /\ hActive # Null
  /\ hOps < MaxGestures
  /\ hOps' = hOps + 1
  /\ hActive' = Null
  /\ UNCHANGED <<hHeap, hMerged, hHistory, hIndex, hLoading, hPublished>>
  /\ UNCHANGED <<normVars, ovVars, appVars, dockVars, auxVars, canvasVars,
                 bandVars, rawVars, renderVars, drawerVars>>

HeapNext ==
  \/ \E kg \in Range(Kgs) : HeapIndexLoaded(kg)
  \/ HeapSwitchKg
  \/ \E res \in HeapResults : HeapAppend(res)
  \/ \E i \in 1..MaxGestures, ctx \in HeapResults : HeapSelect(i, ctx)
  \/ HeapClear

(***************************************************************************)
(* App.tsx: the detail drawer.  selectedNode and selectedLink are written  *)
(* by the selectedKg effect (lines 58-59), handleMessageSelect (96-97),    *)
(* clearHighlights (117-118), the canvas click handlers (195-202) and the  *)
(* drawer's onClose (212-215).  One action is one of these handlers.       *)
(***************************************************************************)
\* data.edges of a graph: edges of either kind between every two nodes, and
\* loops
DrawerEdges(kg) ==
  { [source |-> u.id, target |-> v.id, edge_type |-> t] :
      u \in Range(GraphNodes(kg)), v \in Range(GraphNodes(kg)),
      t \in {"bridge", "normal"} }

\* the last handler that ran, with selectedNode and selectedLink before it
DrawerEvent(kind) == [kind |-> kind, node |-> selectedNode, link |-> selectedLink]

DrawerIdle ==
  /\ selectedNode = Null
  /\ selectedLink = Null
  /\ dKg = NoKg
  /\ dLoading = FALSE
  /\ dOps = 0
  /\ dLast = [kind |-> "none", node |-> Null, link |-> Null]

\* the App with its first graph selected and the index requested: the
\* selectedKg effect has run
DrawerInit ==
  /\ selectedNode = Null
  /\ selectedLink = Null
  /\ dKg = Kgs[1]
  /\ dLoading = TRUE
  /\ dOps = 0
  /\ dLast = [kind |-> "switch", node |-> Null, link |-> Null]

\* getIndex resolved (App.tsx lines 64-65, 70): the shell is shown
DrawerIndexLoaded ==
  /\ dLoading
  /\ dLoading' = FALSE
  /\ dLast' = DrawerEvent("loaded")
  /\ UNCHANGED <<selectedNode, selectedLink, dKg, dOps>>
  /\ UNCHANGED <<normVars, ovVars, appVars, dockVars, auxVars, canvasVars,
                 bandVars, rawVars, renderVars, heapVars>>

\* onKgChange and the selectedKg effect (App.tsx lines 54-60)
DrawerSwitchKg(kg) ==
  /\ ~dLoading
  /\ kg # dKg
  /\ dOps < MaxDrawerOps
  /\ dOps' = dOps + 1
  /\ dKg' = kg
  /\ dLoading' = TRUE
  /\ selectedNode' = Null
  /\ selectedLink' = Null
  /\ dLast' = DrawerEvent("switch")
  /\ UNCHANGED <<normVars, ovVars, appVars, dockVars, auxVars, canvasVars,
                 bandVars, rawVars, renderVars, heapVars>>

\* a variant of onNodeSelect that leaves selectedLink as it is
onNodeSelectKeepsLink(node) ==
  /\ selectedNode' = node
  /\ UNCHANGED selectedLink

\* onNodeSelect (App.tsx lines 195-198)
onNodeSelect(node) ==
  /\ selectedLink' = Null
  /\ selectedNode' = node

\* onLinkSelect (App.tsx lines 199-202)
onLinkSelect(link) ==
  /\ selectedNode' = Null
  /\ selectedLink' = link

\* a click on a node of the canvas
DrawerNodeClick(node) ==
  /\ ~dLoading
  /\ node \in Range(GraphNodes(dKg))
  /\ dOps < MaxDrawerOps
  /\ dOps' = dOps + 1
  /\ onNodeSelect(node)
  /\ dLast' = DrawerEvent("node")
  /\ UNCHANGED <<dKg, dLoading>>
  /\ UNCHANGED <<normVars, ovVars, appVars, dockVars, auxVars, canvasVars,
                 bandVars, rawVars, renderVars, heapVars>>

\* a click on a link of the canvas
DrawerLinkClick(link) ==
  /\ ~dLoading
  /\ link \in DrawerEdges(dKg)
  /\ dOps < MaxDrawerOps
  /\ dOps' = dOps + 1
  /\ onLinkSelect(link)
  /\ dLast' = DrawerEvent("link")
  /\ UNCHANGED <<dKg, dLoading>>
  /\ UNCHANGED <<normVars, ovVars, appVars, dockVars, auxVars, canvasVars,
                 bandVars, rawVars, renderVars, heapVars>>

\* handleMessageSelect for a message with a qid, up to its await (App.tsx
\* lines 94-97)
DrawerMessageSelect ==
  /\ ~dLoading
  /\ dOps < MaxDrawerOps
  /\ dOps' = dOps + 1
  /\ selectedNode' = Null
  /\ selectedLink' = Null
  /\ dLast' = DrawerEvent("select")
  /\ UNCHANGED <<dKg, dLoading>>
  /\ UNCHANGED <<normVars, ovVars, appVars, dockVars, auxVars, canvasVars,
                 bandVars, rawVars, renderVars, heapVars>>

\* clearHighlights (App.tsx lines 115-119)
DrawerClear ==
  /\ ~dLoading
  /\ dOps < MaxDrawerOps
  /\ dOps' = dOps + 1
  /\ selectedNode' = Null
  /\ selectedLink' = Null
  /\ dLast' = DrawerEvent("clear")
  /\ UNCHANGED <<dKg, dLoading>>
  /\ UNCHANGED <<normVars, ovVars, appVars, dockVars, auxVars, canvasVars,
                 bandVars, rawVars, renderVars, heapVars>>

\* the drawer's onClose (App.tsx lines 212-215), from its close button or
\* its backdrop
DrawerClose ==
  /\ ~dLoading
  /\ dOps < MaxDrawerOps
  /\ dOps' = dOps + 1
  /\ selectedNode' = Null
  /\ selectedLink' = Null
  /\ dLast' = DrawerEvent("close")
  /\ UNCHANGED <<dKg, dLoading>>
  /\ UNCHANGED <<normVars, ovVars, appVars, dockVars, auxVars, canvasVars,
                 bandVars, rawVars, renderVars, heapVars>>

DrawerNext ==
  \/ DrawerIndexLoaded
  \/ \E kg \in Range(Kgs) : DrawerSwitchKg(kg)
  \/ \E node \in Range(GraphNodes(dKg)) : DrawerNodeClick(node)
  \/ \E link \in DrawerEdges(dKg) : DrawerLinkClick(link)
  \/ DrawerMessageSelect
  \/ DrawerClear
  \/ DrawerClose

\* the painting, the Set objects and the detail drawer at rest
MoreIdle == RenderIdle /\ HeapIdle /\ DrawerIdle

\* the canvas, the bands and the stored context at rest
RestIdle == CanvasIdle /\ BandIdle /\ RawIdle /\ MoreIdle

(***************************************************************************)
(* Specifications.                                                         *)
(***************************************************************************)
Init == AppInit /\ NormIdle /\ OverlayIdle /\ RestIdle

InitNorm == NormInit /\ OverlayIdle /\ AppIdle /\ RestIdle

InitOverlay == OverlayInit /\ NormIdle /\ AppIdle /\ RestIdle

\* the App and its ChatDock
Spec == Init /\ [][Next]_vars

\* normalize on drawn inputs
SpecNorm == InitNorm /\ [][NormNext]_vars

\* buildOverlay on drawn inputs
SpecOverlay == InitOverlay /\ [][OverlayNext]_vars

InitCanvas ==
  CanvasInit /\ BandIdle /\ RawIdle /\ MoreIdle /\ NormIdle /\ OverlayIdle
    /\ AppIdle

InitBands ==
  BandInit /\ CanvasIdle /\ RawIdle /\ MoreIdle /\ NormIdle /\ OverlayIdle
    /\ AppIdle

InitRaw ==
  RawInit /\ CanvasIdle /\ BandIdle /\ MoreIdle /\ NormIdle /\ OverlayIdle
    /\ AppIdle

\* the canvas under any sequence of props, frames and unmounts
SpecCanvas == InitCanvas /\ [][CanvasNext]_vars

\* the band effect on drawn graphs and viewport heights
SpecBands == InitBands /\ [][BandNext]_vars

\* stored contexts through getContextData into buildOverlay
SpecRaw == InitRaw /\ [][RawNext]_vars

InitRender ==
  RenderInit /\ HeapIdle /\ DrawerIdle /\ CanvasIdle /\ BandIdle /\ RawIdle /\ NormIdle
    /\ OverlayIdle /\ AppIdle

InitHeap ==
  HeapInit /\ RenderIdle /\ DrawerIdle /\ CanvasIdle /\ BandIdle /\ RawIdle /\ NormIdle
    /\ OverlayIdle /\ AppIdle

InitDrawer ==
  DrawerInit /\ RenderIdle /\ HeapIdle /\ CanvasIdle /\ BandIdle /\ RawIdle
    /\ NormIdle /\ OverlayIdle /\ AppIdle

\* the detail drawer under any sequence of gestures
SpecDrawer == InitDrawer /\ [][DrawerNext]_vars

\* the App's overlays as references to Set objects
SpecHeap == InitHeap /\ [][HeapNext]_vars

\* one paint of drawn graphs, overlays and links
SpecRender == InitRender /\ [][RenderNext]_vars

(***************************************************************************)
(* Properties of the App.                                                  *)
(***************************************************************************)
\* the reasoning-path entries of a retrieval payload
PathEntries(res) == Range(res.node_hits.use_reasoning_path)

\* every qid the backend knows a context for
AllQids == {"q1", "q2", "q3", "q4"} \cup Range(SendQids)

\* the canonical endpoint texts that occur in any reasoning path
KeyNames ==
  UNION { {normalize(p.src_tgt[1]), normalize(p.src_tgt[2])} :
          p \in UNION {PathEntries(ServerCtx(Kgs[1], q)) : q \in AllQids} }

\* both orderings of the key of a reasoning-path entry
BothKeys(p) ==
  { joinKey(normalize(p.src_tgt[1]), normalize(p.src_tgt[2])),
    joinKey(normalize(p.src_tgt[2]), normalize(p.src_tgt[1])) }

\* whether a free-text name resolves to some node of a graph
Resolves(name, kg) == Referred(name, GraphNodes(kg)) # {}

\* C6: pathEdgeKeys of every overlay built by buildOverlay (the active
\* overlay) and by the history merge is symmetric: A||B is a key iff B||A is;
\* and every reasoning-path entry contributes both of its keys, whether or
\* not its endpoints resolve to a node.
C6_EdgeKeysSymmetric ==
  /\ \A ov \in {activeOverlay, mergedOverlay} \ {Null} :
       /\ \A a \in KeyNames, b \in KeyNames :
            joinKey(a, b) \in ov.pathEdgeKeys <=> joinKey(b, a) \in ov.pathEdgeKeys
       /\ \A k \in ov.pathEdgeKeys :
            \E a \in KeyNames, b \in KeyNames : k = joinKey(a, b)
  /\ activeOverlay # Null =>
       \A p \in PathEntries(ServerCtx(activeSrc.kg, activeSrc.qid)) :
         BothKeys(p) \subseteq activeOverlay.pathEdgeKeys
  /\ (indexData # NoIndex /\ mergedOverlay # Null) =>
       \A i \in 1..Len(chatHistory) :
         chatHistory[i].retrieval # NoRetrieval =>
           \A p \in PathEntries(chatHistory[i].retrieval) :
             BothKeys(p) \subseteq mergedOverlay.pathEdgeKeys

\* C6 witness: the active overlay and the merged overlay both hold the two
\* keys of an entry with an endpoint that resolves to no node.
C6_Witness ==
  /\ activeOverlay # Null
  /\ mergedOverlay # Null
  /\ indexData # NoIndex
  /\ \E p \in PathEntries(ServerCtx(activeSrc.kg, activeSrc.qid)) :
       /\ ~Resolves(p.src_tgt[1], activeSrc.graph)
       /\ BothKeys(p) \subseteq activeOverlay.pathEdgeKeys
       /\ BothKeys(p) \subseteq mergedOverlay.pathEdgeKeys
       /\ Cardinality(BothKeys(p)) = 2

\* the messages of the App's history that carry a retrieval payload
WithRetrieval == {m \in Range(chatHistory) : m.retrieval # NoRetrieval}

\* C8: with a loaded graph, the merged overlay is the element-wise union of
\* buildOverlay(m.retrieval, current nodes) over the messages of the App's
\* history that carry a retrieval payload; an empty history gives empty sets.
C8_MergedIsUnion ==
  indexData # NoIndex =>
    /\ mergedOverlay # Null
    /\ LET ovs == {buildOverlay(r, GraphNodes(indexData)) :
                    r \in {m.retrieval : m \in WithRetrieval}}
       IN  /\ mergedOverlay.hitNodeIds = UNION {ov.hitNodeIds : ov \in ovs}
           /\ mergedOverlay.pathNodeIds = UNION {ov.pathNodeIds : ov \in ovs}
           /\ mergedOverlay.pathEdgeKeys = UNION {ov.pathEdgeKeys : ov \in ovs}
    /\ chatHistory = <<>> => mergedOverlay = EmptyOverlay

\* C8 witness: a loaded graph and a history in which a sent message and an
\* enriched stored message carry different payloads, merged into a non-empty
\* overlay.
C8_Witness ==
  /\ indexData # NoIndex
  /\ mergedOverlay # Null
  /\ \E m1 \in WithRetrieval, m2 \in WithRetrieval :
       /\ m1.retrieval # m2.retrieval
       /\ m1.id.role = "user"
       /\ m2.id.role = "temp_user"
  /\ \E m \in Range(chatHistory) : m.retrieval = NoRetrieval
  /\ mergedOverlay.hitNodeIds # {}
  /\ mergedOverlay.pathEdgeKeys # {}

\* C9: once every context fetch has completed, the active overlay is the one
\* built for the most recently selected message (among those whose fetch
\* returned a context), never an earlier selection's.
C9_LatestSelectionShown ==
  (ctxInFlight = {} /\ sendsInFlight = {} /\ activeOverlay # Null) =>
    activeOverlay =
      buildOverlay(ServerCtx(latestOk.kg, latestOk.qid), GraphNodes(latestOk.graph))

\* C10: whenever the graph canvas is shown, every id in the displayed
\* overlay's hitNodeIds and pathNodeIds is the id of a node of the loaded graph.
C10_DisplayedIdsInGraph ==
  (ShellShown /\ DisplayedOverlay # Null) =>
    (DisplayedOverlay.hitNodeIds \cup DisplayedOverlay.pathNodeIds)
      \subseteq {n.id : n \in Range(GraphNodes(indexData))}

(***************************************************************************)
(* Properties of the canvas.                                               *)
(***************************************************************************)
\* the last event gave the canvas an overlay after it was mounted
Presented == cLast.kind \in {"present", "presentReset"}

\* C11: an overlay whose focus set has the signature of the overlay applied
\* last, presented when the reset effect has not run since that overlay was
\* applied, requests no camera fit and no reheat.
C11_SameSignatureNoFit ==
  ( /\ Presented
    /\ cLast.focus # {}
    /\ cLast.prevApplied # {}
    /\ signature(cLast.focus) = signature(cLast.prevApplied)
    /\ cLast.resetSince = "no" )
  => cLast.scheduled = 0

\* C12: an overlay with a non-empty focus set that differs, as a set, from
\* the focus set applied last requests exactly one camera fit constrained to
\* its focus set.
C12_DifferingOverlayOneFit ==
  ( /\ Presented
    /\ cLast.focus # {}
    /\ cLast.prevApplied # {}
    /\ cLast.focus # cLast.prevApplied )
  => /\ cLast.scheduled = 1
     /\ FocusCallback(cLast.focus) \in Range(frameQueue)

\* C13: a reset (a new resetZoomTick) requests a full-graph fit whatever the
\* stored signature is, and once an overlay is presented after a reset with
\* the focus set that was applied last and fitted before the reset (and whose
\* signature is not the reset value), a focus fit for it is requested (again).
C13_ResetRefits ==
  /\ cLast.kind = "reset" =>
       /\ frameQueue # <<>>
       /\ frameQueue[Len(frameQueue)] = ResetCallback
  /\ ( /\ cLast.kind = "present"
       /\ cLast.focus # {}
       /\ cLast.resetSince = "tick"
       /\ cLast.prevApplied = cLast.focus
       /\ signature(cLast.focus) # ResetSig
       /\ camera = [kind |-> "focus", focus |-> cLast.focus] )
     => FocusCallback(cLast.focus) \in Range(frameQueue)

\* C14: the value stored by a reset and the initial value of zoomSigRef are
\* distinguished from every signature: an overlay with a non-empty focus set
\* presented at mount, or presented with another focus set than the one
\* applied last while zoomSigRef holds the value of a reset whose full-graph
\* fit is the camera's last move, requests exactly one fit.
C14_SentinelDistinguished ==
  ( /\ cLast.focus # {}
    /\ \/ cLast.kind = "mount"
       \/ /\ Presented
          /\ cLast.sigBefore = ResetSig
          /\ cLast.prevApplied # cLast.focus
          /\ camera.kind = "full" )
  => cLast.scheduled = 1

\* C15: an overlay whose focus set is empty (null, or with hitNodeIds and
\* pathNodeIds both empty) makes the focus effect request no camera fit (and
\* so no reheat) and leaves zoomSigRef as it was; no requested focus fit is
\* ever for an empty focus set.
C15_EmptyFocusNoFit ==
  /\ ( /\ cLast.kind \in {"mount", "present", "presentReset"}
       /\ cLast.focus = {} )
     => /\ cLast.scheduled = 0
        /\ zoomSigRef = cLast.sigBefore
  /\ \A i \in 1..Len(frameQueue) :
       frameQueue[i].kind = "focus" => frameQueue[i].focus # {}

\* an overlay object with two empty id sets is presented while the signature
\* of an applied overlay is stored
C15_Witness ==
  /\ cLast.kind = "present"
  /\ cOverlay # Null
  /\ cLast.focus = {}
  /\ cLast.prevApplied # {}
  /\ cLast.sigBefore = signature(cLast.prevApplied)
  /\ zoomSigRef = cLast.sigBefore

(***************************************************************************)
(* Properties of buildOverlay on a stored context.                         *)
(***************************************************************************)
\* the items of a received array, none for an absent one
ItemsOf(v) == IF isNullish(v) THEN <<>> ELSE v.val

\* the received result has an item whose entity_name, or a src_tgt element
\* of which, is null or missing
HasMalformedItem(res) ==
  /\ ~isNullish(res.node_hits)
  /\ \/ \E i \in 1..Len(ItemsOf(res.node_hits.node_datas)) :
          isNullish(ItemsOf(res.node_hits.node_datas)[i].entity_name)
     \/ \E i \in 1..Len(ItemsOf(res.node_hits.use_reasoning_path)) :
          \E j \in 1..2 :
            isNullish(ItemsOf(res.node_hits.use_reasoning_path)[i].src_tgt[j])

\* C16: buildOverlay, given a result received from a stored context in which
\* node_hits.node_datas or node_hits.use_reasoning_path is absent (and no item
\* is malformed), returns an overlay, with no hits for an absent node_datas
\* and no path nodes and edge keys for an absent use_reasoning_path.
C16_AbsentFieldsDefault ==
  ( /\ xPc = "built"
    /\ ~HasMalformedItem(xRes)
    /\ \/ isNullish(xRes.node_hits.node_datas)
       \/ isNullish(xRes.node_hits.use_reasoning_path) )
  => /\ xOut # TypeError
     /\ isNullish(xRes.node_hits.node_datas) => xOut.hitNodeIds = {}
     /\ isNullish(xRes.node_hits.use_reasoning_path) =>
          (xOut.pathNodeIds = {} /\ xOut.pathEdgeKeys = {})

\* the received items that are well formed
WellFormedHits(items) ==
  SelectSeq(items, LAMBDA nd : ~isNullish(nd.entity_name))

WellFormedPaths(items) ==
  SelectSeq(items, LAMBDA p : \A j \in 1..2 : ~isNullish(p.src_tgt[j]))

\* the received result without its malformed items
WithoutMalformed(res) ==
  [node_hits |->
     [type |-> "object",
      node_datas |-> JArray(WellFormedHits(ItemsOf(res.node_hits.node_datas))),
      use_reasoning_path |->
        JArray(WellFormedPaths(ItemsOf(res.node_hits.use_reasoning_path)))]]

\* C17: buildOverlay, given a result with a malformed item (an entity_name or
\* a src_tgt element that is null or missing) among present node_datas,
\* completes without raising and returns what the well-formed items alone
\* give: the malformed item adds nothing, the others are processed.
C17_MalformedItemsSkipped ==
  ( /\ xPc = "built"
    /\ HasMalformedItem(xRes)
    /\ ~isNullish(xRes.node_hits.node_datas) )
  => /\ xOut # TypeError
     /\ xOut = buildOverlayReceived(WithoutMalformed(xRes), xNodes)

DistinctLevels == Range(bLevels)

\* a and b are neighbours in the ascending order of the distinct levels
ConsecutiveLevels(a, b) ==
  /\ a \in DistinctLevels
  /\ b \in DistinctLevels
  /\ a < b
  /\ ~\E c \in DistinctLevels : a < c /\ c < b

\* C19: with k distinct levels present and a viewport taller than twice the
\* padding, the targets of two levels that are neighbours in ascending order
\* are (height - 2 * padding) / k apart, the lower level below the higher:
\* y(a) - y(b) = (height - 2 * padding) / k, stated without division.
C19_EqualSlicePerDistinctLevel ==
  ( /\ bPc = "installed"
    /\ bHeight > 2 * Padding )
  => \A a, b \in DistinctLevels :
       ConsecutiveLevels(a, b) =>
         (bForce[a].num - bForce[b].num) * Cardinality(DistinctLevels)
           = (bHeight - 2 * Padding) * bForce[a].den

\* C20: for a viewport height above 0, of two levels present the lower one
\* has the strictly greater target y, and the lowest level's target is
\* height - padding.
C20_LowestLevelNearestBottom ==
  bPc = "installed" =>
    /\ \A a, b \in DistinctLevels :
         a < b => /\ bForce[a].den = bForce[b].den
                  /\ bForce[a].den > 0
                  /\ bForce[a].num > bForce[b].num
    /\ \A a \in DistinctLevels :
         (\A c \in DistinctLevels : a <= c) =>
           bForce[a].num = (bHeight - Padding) * bForce[a].den

\* levels {0, 1} at height 400: y(0) = 352 and y(1) = 200
C20_Witness ==
  /\ bPc = "installed"
  /\ DistinctLevels = {0, 1}
  /\ bHeight = 400
  /\ bForce[0] = [num |-> 704, den |-> 2]
  /\ bForce[1] = [num |-> 400, den |-> 2]

(***************************************************************************)
(* Properties of the painting.                                             *)
(***************************************************************************)
\* the nodes of the painted graph
PaintedNodes == renderNodes(rLevels)

\* the three sets of the overlay are empty, or there is no overlay
NothingHighlighted ==
  \/ rOverlay = Null
  \/ /\ rOverlay.hitNodeIds = {}
     /\ rOverlay.pathNodeIds = {}
     /\ rOverlay.pathEdgeKeys = {}

\* C21: the style of a painted node is determined by its overlay membership
\* and its level, hit before path: with no overlay or three empty sets every
\* node has its level colour and the default radius; otherwise a node in
\* hitNodeIds (also when in pathNodeIds) has the hit colour, the largest
\* radius and glow, a node in pathNodeIds only has the path colour and the
\* medium radius without glow, and every other node has its level colour and
\* the default radius.
C21_NodeStyleByMembership ==
  "nodes" \in rPainted =>
    \A i \in 1..Len(PaintedNodes) :
      LET n     == PaintedNodes[i]
          st    == rNodeStyle[i]
          level == [fill |-> getLevelColor(n.level, PaintedNodes),
                    glow |-> FALSE, r |-> 3]
          shown == [fill |-> st.fill, glow |-> st.glow, r |-> st.r]
      IN  IF NothingHighlighted THEN shown = level
          ELSE IF n.id \in rOverlay.hitNodeIds
            THEN shown = [fill |-> HIT_FILL, glow |-> TRUE, r |-> 5]
          ELSE IF n.id \in rOverlay.pathNodeIds
            THEN shown = [fill |-> PATH_FILL, glow |-> FALSE, r |-> 4]
          ELSE shown = level

\* a paint in which one node is hit and on a path, another is on a path only
\* and a third is in neither set
C21_Witness ==
  /\ "nodes" \in rPainted
  /\ rOverlay # Null
  /\ \E i, j, k \in 1..Len(PaintedNodes) :
       /\ PaintedNodes[i].id \in rOverlay.hitNodeIds \cap rOverlay.pathNodeIds
       /\ rNodeStyle[i].fill = HIT_FILL
       /\ PaintedNodes[j].id \in rOverlay.pathNodeIds \ rOverlay.hitNodeIds
       /\ rNodeStyle[j].fill = PATH_FILL
       /\ PaintedNodes[k].id \notin rOverlay.pathNodeIds \cup rOverlay.hitNodeIds
       /\ rNodeStyle[k].r = 3

\* the key of the painted link is in pathEdgeKeys
LinkOnPath == rOverlay # Null /\ edgeKey(rLink) \in rOverlay.pathEdgeKeys

\* C22: a painted link has exactly one stroke, never the solid and the dashed
\* one together and never none; the stroke has the accent colour and width 3
\* exactly when the link's edgeKey is in pathEdgeKeys, otherwise the faint
\* neutral colour and width 1; 'replace' mode is chosen exactly when the
\* custom routine draws its dashed segment, which is exactly when the link is
\* a bridge and a path edge.
C22_EdgeStyleAndBridgeOverride ==
  "link" \in rPainted =>
    /\ Cardinality(rLinkPaint.strokes) = 1
    /\ \A s \in rLinkPaint.strokes :
         /\ (s.strokeStyle = PATH_EDGE /\ s.lineWidth = 3) <=> LinkOnPath
         /\ (s.strokeStyle = OTHER_EDGE /\ s.lineWidth = 1) <=> ~LinkOnPath
         /\ s.dash <=> (rLink.edge_type = "bridge" /\ LinkOnPath)
    /\ (rLinkPaint.mode = "replace") <=> (linkCanvasObject(rOverlay, rLink) # {})
    /\ (rLinkPaint.mode = "replace")
         <=> (rLink.edge_type = "bridge" /\ LinkOnPath)

\* a bridge link on a reasoning path, its endpoints resolved to node objects,
\* is painted with the dashed stroke alone
C22_Witness ==
  /\ "link" \in rPainted
  /\ rLink.edge_type = "bridge"
  /\ rLink.source.type = "object"
  /\ LinkOnPath
  /\ rLinkPaint.mode = "replace"
  /\ rLinkPaint.strokes = {[dash |-> TRUE, lineWidth |-> 3,
                            strokeStyle |-> PATH_EDGE]}

\* the id of an endpoint of a link
EndId(x) == IF x.type = "string" THEN x.val ELSE x.id

\* the link joins nodes whose ids normalize to normalize(a) and normalize(b),
\* stored from a to b
JoinsInOrder(l, a, b) ==
  /\ normalize(EndId(l.source)) = normalize(a)
  /\ normalize(EndId(l.target)) = normalize(b)

\* C23: for every reasoning-path entry (a, b) of the result behind the
\* overlay, a link of the graph whose endpoint ids normalize to normalize(a)
\* and normalize(b) is a path edge, and is painted as one, whether it is
\* stored from a to b or from b to a.
C23_DirectionInsensitiveLookup ==
  ( /\ "link" \in rPainted
    /\ rRes # NoRetrieval )
  => \A p \in PathEntries(rRes) :
       ( \/ JoinsInOrder(rLink, p.src_tgt[1], p.src_tgt[2])
         \/ JoinsInOrder(rLink, p.src_tgt[2], p.src_tgt[1]) )
       => /\ isPathEdge(rOverlay, rLink)
          /\ \A s \in rLinkPaint.strokes : s.strokeStyle = PATH_EDGE

\* a link stored against the direction of its reasoning-path entry, with ids
\* that differ from the entry's names in case, quotes and whitespace, is
\* painted as a path edge
C23_Witness ==
  /\ "link" \in rPainted
  /\ rRes # NoRetrieval
  /\ \E p \in PathEntries(rRes) :
       /\ JoinsInOrder(rLink, p.src_tgt[2], p.src_tgt[1])
       /\ EndId(rLink.source) # p.src_tgt[2]
       /\ EndId(rLink.target) # p.src_tgt[1]
  /\ \E s \in rLinkPaint.strokes : s.strokeStyle = PATH_EDGE

\* the level colour a painted node shows: its fill, or its outline when the
\* fill is the hit or path colour
ShownLevelColour(st) == IF st.lineWidth = 0 THEN st.fill ELSE st.stroke

\* the number of distinct levels of the painted graph below lvl
RankOfLevel(lvl) ==
  Cardinality({l \in Range(rLevels) : l < lvl})

\* C24: the level colour of a painted node is the palette entry at the rank
\* of its level among the distinct levels present, in ascending order and
\* modulo the palette length, and (the graph having at most as many distinct
\* levels as the palette has entries) nodes of different levels show
\* different colours.
C24_LevelColourByRank ==
  "nodes" \in rPainted =>
    /\ \A i \in 1..Len(rLevels) :
         ShownLevelColour(rNodeStyle[i])
           = LEVEL_PALETTE[(RankOfLevel(rLevels[i]) % Len(LEVEL_PALETTE)) + 1]
    /\ \A i, j \in 1..Len(rLevels) :
         rLevels[i] # rLevels[j] =>
           ShownLevelColour(rNodeStyle[i]) # ShownLevelColour(rNodeStyle[j])
    /\ \A a, b \in 1..Len(LEVEL_PALETTE) :
         a # b => LEVEL_PALETTE[a] # LEVEL_PALETTE[b]

\* levels 0, 5 and 9 are painted with the palette entries 0, 1 and 2, one of
\* them as the outline of a highlighted node
C24_Witness ==
  /\ "nodes" \in rPainted
  /\ rLevels = <<0, 5, 9>>
  /\ ShownLevelColour(rNodeStyle[1]) = "#4F46E5"
  /\ ShownLevelColour(rNodeStyle[2]) = "#10B981"
  /\ ShownLevelColour(rNodeStyle[3]) = "#F59E0B"
  /\ rNodeStyle[1].fill = HIT_FILL

(***************************************************************************)
(* Properties of the overlay given to the canvas.                          *)
(***************************************************************************)
\* C25: while the shell is shown, the overlay given to the canvas is the
\* selected message's overlay whenever one is set, also when its three sets
\* are empty, and the accumulated history overlay otherwise; it is null only
\* when both are null.
C25_ActiveOverlayFirst ==
  ShellShown =>
    /\ activeOverlay # Null => DisplayedOverlay = activeOverlay
    /\ activeOverlay = Null => DisplayedOverlay = mergedOverlay
    /\ DisplayedOverlay = Null <=> (activeOverlay = Null /\ mergedOverlay = Null)

\* a message whose overlay has three empty sets is selected while the
\* history overlay has highlights: the canvas gets the empty one
C25_Witness ==
  /\ ShellShown
  /\ activeOverlay = EmptyOverlay
  /\ mergedOverlay # Null
  /\ mergedOverlay.hitNodeIds # {}
  /\ DisplayedOverlay = EmptyOverlay

\* C26: after a change of the viewport size (of the width alone too) or of
\* the set of distinct levels present (also one that keeps the lowest and the
\* highest level), with a viewport height other than 0, the band effect has
\* run: the force and its targets are computed anew and the simulation is
\* reheated.
C26_BandsRecomputedOnChange ==
  ( /\ bLast.kind \in {"resize", "graph"}
    /\ bLast.sizeChanged \/ bLast.levelsChanged
    /\ bHeight # 0 )
  => bLast.ran

\* C27: with an empty node list the band effect uses one band: levels is 1,
\* the spacing is the inner height, and the targets are quotients with a
\* divisor other than 0, for every viewport height above 0.
C27_EmptyGraphSingleBand ==
  ( /\ bPc = "installed"
    /\ bLevels = <<>> )
  => /\ bClosure.levels = 1
     /\ bClosure.spacing = [num |-> innerHeight(bHeight), den |-> 1]
     /\ \A lvl \in LevelPool :
          /\ yFor(lvl, bClosure.h, bClosure.minLevel, bClosure.maxLevel).den # 0
          /\ bClosure.spacing.den # 0

\* the band effect has installed the force for a graph without nodes in a
\* viewport lower than twice the padding
C27_Witness ==
  /\ bPc = "installed"
  /\ bLevels = <<>>
  /\ bHeight = 10
  /\ bClosure.levels = 1
  /\ bClosure.spacing = [num |-> 1, den |-> 1]

(***************************************************************************)
(* Properties of the frame callbacks.                                      *)
(***************************************************************************)
\* the calls the callbacks of a queue make when each live one runs in the
\* order of the queue: its fit, then its reheat
RECURSIVE CallsInOrder(_)
CallsInOrder(queue) ==
  IF queue = <<>> THEN <<>>
  ELSE LET cb == Head(queue)
           own == IF ~cb.live THEN <<>>
                  ELSE IF cb.kind = "focus"
                  THEN <<ZoomToFit(cb.focus), ReheatCall>>
                  ELSE <<ZoomToFitAll, ReheatCall>>
       IN  own \o CallsInOrder(Tail(queue))

\* the step handled a new overlay, a reset, or both (at mount too)
EffectStep ==
  /\ cLast' # cLast \/ frameQueue' # frameQueue
  /\ cLast'.kind \in {"mount", "present", "presentReset", "reset"}

\* C28: a step that handles an overlay change or a reset makes no call on
\* the graph handle and leaves the camera where it is, and every callback it
\* requests is in the queue afterwards; the calls are made by a later frame
\* step, which runs the requested callbacks in the order of their requests,
\* each one's fit before its reheat.
C28_FitAndReheatDeferred ==
  [][ /\ EffectStep =>
           /\ cLog' = <<>>
           /\ camera' = camera
           /\ Len(frameQueue') >= Len(frameQueue)
           /\ SubSeq(frameQueue', 1, Len(frameQueue)) = frameQueue
      /\ cLog' # <<>> =>
           /\ cLast'.kind = "frame"
           /\ frameQueue # <<>>
           /\ cLog' = CallsInOrder(frameQueue)
           /\ frameQueue' = <<>>
    ]_vars

\* a frame has run a focus callback and then a reset callback that were
\* requested in this order by earlier steps
C28_Witness ==
  /\ cLast.kind = "frame"
  /\ Len(cLog) = 4
  /\ cLog[1].call = "zoomToFit" /\ cLog[1].filter = "focus"
  /\ cLog[2] = ReheatCall
  /\ cLog[3] = ZoomToFitAll
  /\ cLog[4] = ReheatCall
  /\ camera.kind = "full"


(***************************************************************************)
(* Properties of the Set objects of the overlays.                          *)
(***************************************************************************)
\* an overlay stored by the step as activeOverlay or mergedOverlay
StoredByStep ==
  (IF hMerged' # hMerged THEN refsOf(hMerged') ELSE {})
    \cup (IF hActive' # hActive THEN refsOf(hActive') ELSE {})

\* C29: once an overlay has been stored as activeOverlay or mergedOverlay,
\* no later operation (message append, selection, clear, graph switch,
\* recomputation) adds to or removes from its three Sets, and every
\* recomputation stores Sets that were created by it.
C29_PublishedOverlaysImmutable ==
  [][ /\ \A r \in hPublished : r \in DOMAIN hHeap' /\ hHeap'[r] = hHeap[r]
      /\ \A r \in StoredByStep : r \notin DOMAIN hHeap /\ r \notin hPublished
    ]_vars

\* a selection and a recomputation have replaced overlays stored before:
\* the Sets of the replaced overlays are no longer held, one of them has
\* elements, and the merged overlay now stored has other elements
C29_Witness ==
  /\ hActive # Null
  /\ hMerged # Null
  /\ hHeap[hActive.hitNodeIds] # {}
  /\ \E r \in hPublished \ (refsOf(hActive) \cup refsOf(hMerged)) :
       /\ hHeap[r] # {}
       /\ hHeap[r] # hHeap[hMerged.hitNodeIds]
       /\ hHeap[r] # hHeap[hMerged.pathNodeIds]
       /\ hHeap[r] # hHeap[hMerged.pathEdgeKeys]


C31_SelectionEndsOnFocusFit ==
  [][ ( /\ cLast.kind = "presentReset"
        /\ cLast.focus # {}
        /\ cLast.scheduled = 1
        /\ signature(cLast.focus) # ResetSig
        /\ cLast'.kind = "frame" )
      => /\ camera' = [kind |-> "focus", focus |-> cLast.focus]
         /\ zoomSigRef' = signature(cLast.focus)
    ]_vars


\* C32: a frame callback never finds the graph handle absent: also when the
\* canvas is unmounted between the request of a focus or reset fit and the
\* animation frame, no callback dereferences a null fgRef.current and none
\* raises an error.
C32_NoCallbackOnAbsentHandle == ~cRaised


(***************************************************************************)
(* Properties of the accumulated overlay over a growing conversation.      *)
(***************************************************************************)
\* the step appends sent messages to the conversation of the mounted dock
AppendStep ==
  /\ sendsInFlight' # sendsInFlight
  /\ Len(dockHistory') > Len(dockHistory)
  /\ SubSeq(dockHistory', 1, Len(dockHistory)) = dockHistory

\* C33: within one loaded graph and without a chat clear, appending messages
\* to the conversation removes no node id and no edge key from mergedOverlay,
\* also when the id or key came from the context attached to a history
\* message by selecting it.
C33_MergedOnlyGrows ==
  [][ ( /\ AppendStep
        /\ mergedOverlay # Null
        /\ mergedOverlay' # Null
        /\ indexData' = indexData )
      => /\ mergedOverlay.hitNodeIds \subseteq mergedOverlay'.hitNodeIds
         /\ mergedOverlay.pathNodeIds \subseteq mergedOverlay'.pathNodeIds
         /\ mergedOverlay.pathEdgeKeys \subseteq mergedOverlay'.pathEdgeKeys
    ]_vars


(***************************************************************************)
(* Properties of the path edges of a graph.                                *)
(***************************************************************************)
\* the edges the graph can have from node u to node v, with the endpoints as
\* loaded (id strings) and as resolved by the graph library (node objects)
EdgesBetween(u, v) ==
  { [source |-> EndString(u.id), target |-> EndString(v.id),
     edge_type |-> "normal"],
    [source |-> EndObject(u.id), target |-> EndObject(v.id),
     edge_type |-> "normal"] }

\* C34: for every reasoning-path entry (a, b) and every edge of the graph
\* between two nodes u and v such that a resolves to u and b resolves to v
\* through the identity index (by id, label or description), the edge is a
\* path edge of the overlay built; with nodes n1/Egg and n2/Boil and the
\* path [Egg, Boil] the edge n1-n2 is a path edge.
C34_ResolvedPathEdgeHighlighted ==
  oPc = "built" =>
    \A p \in PathEntries(oRes) :
      \A u \in Range(oNodes), v \in Range(oNodes) :
        ( /\ u.id # v.id
          /\ u.id \in Referred(p.src_tgt[1], oNodes)
          /\ v.id \in Referred(p.src_tgt[2], oNodes) )
        => \A e \in EdgesBetween(u, v) : isPathEdge(oOut, e)


(***************************************************************************)
(* Properties of edgeKey over the representations of an edge.              *)
(***************************************************************************)
\* the painted link with its endpoints as id strings (as loaded)
LinkAsStrings ==
  [rLink EXCEPT !.source = EndString(EndId(rLink.source)),
                !.target = EndString(EndId(rLink.target))]

\* the painted link with its endpoints replaced by node objects carrying the
\* same ids (as the layout library leaves it once the simulation starts)
LinkAsObjects ==
  [rLink EXCEPT !.source = EndObject(EndId(rLink.source)),
                !.target = EndObject(EndId(rLink.target))]

\* C35: the key of an edge computed from id strings equals the key computed
\* from node objects carrying those ids, so the edge is a path edge, and is
\* painted, the same way before and after the simulation has started.
C35_EdgeKeyRepresentationIndependent ==
  /\ edgeKey(LinkAsStrings) = edgeKey(LinkAsObjects)
  /\ isPathEdge(rOverlay, LinkAsStrings) <=> isPathEdge(rOverlay, LinkAsObjects)
  /\ "link" \in rPainted =>
       /\ rLinkPaint = paintLink(rOverlay, LinkAsStrings)
       /\ rLinkPaint = paintLink(rOverlay, LinkAsObjects)

\* a link on a reasoning path was painted with node objects as endpoints,
\* whose ids are changed by normalize
C35_Witness ==
  /\ "link" \in rPainted
  /\ rLink = LinkAsObjects
  /\ rLink # LinkAsStrings
  /\ normalize(EndId(rLink.source)) # EndId(rLink.source)
  /\ isPathEdge(rOverlay, LinkAsStrings)
  /\ rLinkPaint.strokes # paintLink(Null, rLink).strokes


(***************************************************************************)
(* Properties of a selection that gives no overlay.                        *)
(***************************************************************************)
\* the step ends a context fetch without a context: a fetch leaves
\* ctxInFlight and no selection becomes the source of the active overlay
FetchEndsWithoutContext ==
  /\ ctxInFlight' # ctxInFlight
  /\ ctxInFlight' \subseteq ctxInFlight
  /\ activeSrc' = activeSrc

\* C36: when the context fetch of a selected message returns no data or
\* fails, the active overlay, the history (and the overlay merged from it)
\* and the reset tick are unchanged and chatLoading is false afterwards; a
\* click on a message without a qid changes no state of the App or the dock.
C36_FailedFetchChangesNothing ==
  [][ /\ FetchEndsWithoutContext
        => /\ activeOverlay' = activeOverlay
           /\ chatHistory' = chatHistory
           /\ mergedOverlay' = mergedOverlay
           /\ resetZoomTick' = resetZoomTick
           /\ chatLoading' = FALSE
      /\ (\E i \in 1..Len(dockHistory) : SelectWithoutQid(i))
        => UNCHANGED <<appVars, dockVars>>
    ]_vars

\* a message was selected and highlighted, then another selection was made
\* whose fetch gave no context: the overlay of the first selection is still
\* active, its context is still attached to the history, and chatLoading is
\* false
C36_Witness ==
  /\ ctxInFlight = {}
  /\ sendsInFlight = {}
  /\ selCount >= 2
  /\ latestOk.seq >= 1
  /\ latestOk.seq < selCount
  /\ activeOverlay =
       buildOverlay(ServerCtx(latestOk.kg, latestOk.qid), GraphNodes(latestOk.graph))
  /\ activeOverlay # EmptyOverlay
  /\ \E m \in Range(chatHistory) : m.retrieval # NoRetrieval
  /\ resetZoomTick = 1
  /\ ~chatLoading


(***************************************************************************)
(* Properties of the Clear action of the TopBar.                           *)
(***************************************************************************)
\* the canvas given overlay ov styles node n as a hit node or a path node
StyledAsHighlight(ov, n) ==
  hasOverlay(ov) /\ (isHitNode(ov, n) \/ isPathNode(ov, n))

\* the nodes of the loaded graph
LoadedNodes == IF indexData = NoIndex THEN {} ELSE Range(GraphNodes(indexData))

\* C37: right after clearHighlights the overlay given to the canvas styles
\* no node of the graph as a hit or path node and no edge between two of its
\* nodes as a path edge; the history and the contents of the accumulated
\* overlay are left as they were.
C37_ClearRemovesHighlights ==
  [][ ClearHighlights
      => /\ \A n \in LoadedNodes : ~StyledAsHighlight(DisplayedOverlay', n)
         /\ \A u \in LoadedNodes, v \in LoadedNodes :
              \A e \in EdgesBetween(u, v) : ~isPathEdge(DisplayedOverlay', e)
         /\ chatHistory' = chatHistory
         /\ mergedOverlay' = mergedOverlay
    ]_vars


(***************************************************************************)
(* Properties of the detail drawer.                                        *)
(***************************************************************************)
\* C38: at most one of selectedNode and selectedLink is non-null, and both
\* are null right after a graph switch, a message selection, a
\* clear-highlights action or a drawer close.
C38_DrawerSelectionExclusive ==
  /\ selectedNode = Null \/ selectedLink = Null
  /\ dLast.kind \in {"switch", "select", "clear", "close"}
       => selectedNode = Null /\ selectedLink = Null
  /\ dLast.kind = "node" => selectedNode # Null
  /\ dLast.kind = "link" => selectedLink # Null

\* a node was clicked while a link was selected: the drawer now holds the
\* node alone
C38_Witness ==
  /\ dLast.kind = "node"
  /\ dLast.link # Null
  /\ selectedNode # Null
  /\ selectedLink = Null

=============================================================================
